---- MODULE Spec2Model ----
(***************************************************************************)
(* State-machine model of the billy-b-assistant core:                      *)
(*   - the playback queue, its worker thread, the flush loops and the      *)
(*     drain wait (core/audio_playback.py, core/session.py);               *)
(*   - the conversational session (core/session.py);                       *)
(*   - the worker's head scheduler and beat sync (core/audio_playback.py,  *)
(*     core/movements.py);                                                 *)
(*   - the envelope mouth sync (core/movements.py);                        *)
(*   - the idle watchdog and the motor watchdog against their clocks, the  *)
(*     interlude, the wake-up clip, a song's metadata and the conversion   *)
(*     of an audio delta (core/session.py, core/movements.py,              *)
(*     core/audio_playback.py, core/audio.py, core/audio_utils.py).        *)
(* Each subsystem has its own next-state relation over its own variables;  *)
(* the session's start() and response.done handler also write the done     *)
(* event and start the worker thread, which belong to the playback.        *)
(***************************************************************************)
EXTENDS Integers, Sequences, FiniteSets, TLC

(***************************************************************************)
(* Bounds of the model.                                                    *)
(***************************************************************************)
\* audio chunks the producers enqueue (their ids are 1..MaxItems, in enqueue order)
MaxItems == 3
\* stop signals (None) the producers enqueue
MaxStops == 1

\* the stop signal: playback_queue.put(None)
STOP == 0

\* the mouth sync is watched from FlapStart to FlapStart + FlapHorizon (microseconds)
FlapStart == 200000
FlapHorizon == 200000

\* songs started, and the quarters of a second the worker is watched for
MaxSongs == 2
SongHorizon == 4

\* characters the response transcript may hold
MaxText == 3

\* mic_timeout_checker tasks alive at a time
MaxWatchdogs == 2

\* worker threads created over the life of the process
MaxThreads == 4

\* chunks enqueued and transcript deltas received while one turn is watched
MaxTurnItems == 2
MaxTurnText == 1

VARIABLES
    \* ---- playback (AudioPlaybackManager) ----
    playback_queue,       \* Queue.queue: the items not yet dequeued, in FIFO order
    unfinished_tasks,     \* Queue.unfinished_tasks: put() adds one, task_done() takes one
    playback_done_event,  \* threading.Event
    wpc,                  \* _playback_thread: "dead" (none or not alive), "open", "get", "item"
    witem,                \* the item the worker holds (NoItem when it holds none)
    wfailed,              \* the worker last ended in its except branch
    written,              \* history: chunks mouth-synced and written to the sink, in order
    discarded,            \* history: chunks removed by a flush loop
    lost,                 \* history: chunks the worker held when a write raised
    nput,                 \* history: chunks enqueued so far
    nstop,                \* history: stop signals enqueued so far
    fpc,                  \* flush loop: "idle", "check" (while not empty()), "pop" (get_nowait)
    fkind,                \* which flush loop runs: "stop" (stop_playback) or "bargein"
    jpc,                  \* drain wait: "idle", "waiting" (inside join), "returned"
    jsnap,                \* history: chunks enqueued when the drain wait began (1..jsnap)
    fsnap,                \* history: chunks enqueued when the flush loop was entered (1..fsnap)
    \* ---- envelope mouth sync (movements.py); times in microseconds, RMS in 1/100 ----
    fnow,                 \* time.time() as the mouth sync sees it
    last_flap,            \* _last_flap
    mouth_open_until,     \* _mouth_open_until
    last_rms,             \* _last_rms
    call,                 \* history: the last flap_from_pcm_chunk call and the commands it issued
    lastDrive,            \* history: the last mouth drive issued (NoDrive when none)
    prevDrive,            \* history: the mouth drive before it
    chunk_ms,             \* chunk_ms as the worker passes it (CHUNK_MS of this process)
    mouth_pwm,            \* duty cycle (%) on the mouth channel's PWM pin; 0: stopped
    \* ---- head scheduler and beat sync of the worker; times in quarters of a second ----
    snow,                 \* time.time() as the worker sees it
    song_start_time,      \* audio_playback.song_start_time
    head_move_queue,      \* AudioPlaybackManager.head_move_queue
    swalive,              \* the worker thread is alive
    head_move_active,     \* worker local
    head_move_end_time,   \* worker local
    drums_peak,           \* worker local
    next_beat_time,       \* worker local
    ap_head_out,          \* audio_playback.head_out: "undef" until the worker assigns it
    mv_head_out,          \* movements.head_out
    nsongs,               \* history: play_song calls so far
    fired,                \* history: the head events popped and fired
    beat,                 \* history: what the beat sync did for the last song item
    song,                 \* history: what the last play_song call loaded and did
    \* ---- conversational session (BillySession) ----
    ws_client,            \* "none" (None), "open" (connected), "unconnected" (connect() raised)
    ws_closed,            \* the remote end has closed the socket of ws_client
    session_active,       \* asyncio.Event
    committed,
    first_text,
    full_response_text,   \* sequence of characters
    user_spoke_after_assistant,
    allow_mic_input,
    session_initialized,
    run_mode,             \* RUN_MODE as read at construction
    personality,          \* the attributes of PERSONALITY
    persisted,            \* what update_persona_ini has written, per trait
    spc,                  \* "idle", "stream" (inside run_stream's loop), "post"
    conns,                \* the streaming connections this session has open
    mic_on,               \* the microphone stream is capturing (mic.start / mic.stop)
    wd_tasks,             \* mic_timeout_checker tasks that have not returned
    idle_expired,         \* the idle time since the last activity exceeds the timeout
    wd_stops,             \* history: stops the watchdog requested since the idle time expired
    emitted,              \* what the latest step of the session put out: "none", the
                          \* offline cue ("cue"), a microphone frame ("frame"), the
                          \* commit of the input audio ("commit"), an error log ("error")
    \* ---- worker threads as ensure_playback_worker_started creates them ----
    threads,              \* every thread created: "starting", "streaming" or "dead"
    tref,                 \* _playback_thread: index into threads, 0 for None
    epc,                  \* per calling thread: "idle", or "checked" (about to create)
    \* ---- one turn of the session together with the playback queue ----
    hpc,                  \* where handle_message stands: "idle" (between two messages),
                          \* "flush", "join", "settle", "cue", "song_wait", "song"
    mpc,                  \* mic_callback on the audio thread: "idle", or "checked"
                          \* (past the test of allow_mic_input and session_active)
    audio_buffer,         \* stream_processor.audio_buffer, in chunks
    saved,                \* history: the save buffers persisted, oldest first
    hsnap,                \* history: chunks enqueued before the handler put its cue or song
    interrupted,          \* history: the barge-in branch has run since the last start()
    noops,                \* history: operations that completed on a stopped target
    \* ---- the idle watchdog against the clock; times in half seconds ----
    inow,                 \* time.time() as mic_timeout_checker sees it
    last_activity,        \* BillySession.last_activity[0]
    mgr_last_played,      \* playback_manager.last_played_time
    audio_last_played,    \* audio.last_played_time, bound when core.audio is imported
    checkers,             \* the mic_timeout_checker tasks: last_tail_move, next wake, alive
    idle_out,             \* history: what the latest wake of a checker did
    prev_flap,            \* history: time of the tail flap before the latest (-1: none)
    \* ---- metadata.txt of a song as play_song reads it ----
    meta_file,            \* per key of metadata.txt: "missing", "valid" or "invalid"
    meta_out,             \* history: what play_song made of meta_file as it stands
    \* ---- the worker's finally block ----
    exit_out,             \* history: the motor state the latest worker exit found
    \* ---- the motor watchdog thread (movements.py); times in watchdog intervals ----
    head_pwm,             \* duty cycle (%) on the head channel's PWM pin; 0: stopped
    k_on_for,             \* how long the head channel has been active without a break
    k_since,              \* now - last_activity of motor_watchdog
    k_idle,               \* idle of motor_watchdog
    k_due,                \* the watchdog's sleep is over: its next pass is due
    k_stops,              \* history: the watchdog's latest pass called stop_all_motors
    \* ---- the interlude (movements.py) as the worker calls it ----
    head_tail_locked,     \* _head_tail_lock.locked()
    ithreads,             \* the _interlude_routine threads created: pc, flaps left
    interlude_counter,    \* worker local, in units of 40000 samples
    interlude_target,     \* worker local, in the same units
    \* ---- play_random_wake_up_clip on its calling thread ----
    cpc,                  \* "idle", "enqueue" (inside enqueue_wav_to_playback), "wait"
                          \* (the polling loop), "returned"
    already_pending,      \* local of play_random_wake_up_clip
    clip_left,            \* chunks of the clip not yet read from the file
    clip_ids,             \* history: the chunks of the clip enqueued
    \* ---- one inbound audio delta on its way to the sink (audio_utils.py) ----
    delta_saved,          \* what process_audio_delta appended to audio_buffer
    delta_item,           \* the item it put on playback_queue
    delta_written         \* what the worker wrote to the output stream for that item

pvars == <<playback_queue, unfinished_tasks, playback_done_event, wpc, witem, wfailed,
           written, discarded, lost, nput, nstop, fpc, fkind, jpc, jsnap, fsnap>>

fvars == <<fnow, last_flap, mouth_open_until, last_rms, call, lastDrive, prevDrive,
           chunk_ms, mouth_pwm>>

gvars == <<snow, song_start_time, head_move_queue, swalive, head_move_active,
           head_move_end_time, drums_peak, next_beat_time, ap_head_out, mv_head_out,
           nsongs, fired, beat, song>>

svars == <<ws_client, ws_closed, session_active, committed, first_text,
           full_response_text, user_spoke_after_assistant, allow_mic_input,
           session_initialized, run_mode, personality, persisted, spc, conns, mic_on, wd_tasks, idle_expired,
           wd_stops, emitted>>

evars == <<threads, tref, epc>>

tvars == <<hpc, mpc, audio_buffer, saved, hsnap, interrupted, noops>>

ivars == <<inow, last_activity, mgr_last_played, audio_last_played, checkers, idle_out,
           prev_flap>>

\* the watchdog's variables but the manager's timestamp
ivarsButPlayed == <<inow, last_activity, audio_last_played, checkers, idle_out, prev_flap>>

mvars == <<meta_file, meta_out>>

\* the variables of the later sections but the idle watchdog's
wvars == <<exit_out>>

kvars == <<head_pwm, k_on_for, k_since, k_idle, k_due, k_stops>>

lvars == <<head_tail_locked, ithreads, interlude_counter, interlude_target>>

cvars == <<cpc, already_pending, clip_left, clip_ids>>

dvars == <<delta_saved, delta_item, delta_written>>

ovars == <<mvars, wvars, kvars, lvars, cvars, dvars>>

xvars == <<ivars, ovars>>

vars == <<pvars, fvars, gvars, svars, evars, xvars, tvars>>

\* the variables outside each subsystem
notPlayback == <<fvars, gvars, svars, evars, xvars, tvars>>
notFlap == <<pvars, gvars, svars, evars, xvars, tvars>>
notSong == <<pvars, fvars, svars, evars, xvars, tvars>>
notSession == <<pvars, fvars, gvars, evars, xvars, tvars>>
notWorkers == <<pvars, fvars, gvars, svars, tvars, xvars>>
notMeta == <<pvars, fvars, gvars, svars, evars, tvars, ivars, wvars, kvars, lvars,
             cvars, dvars>>
notClip == <<fvars, gvars, svars, evars, tvars, ivars, mvars, wvars, kvars, lvars, dvars>>
notDelta == <<pvars, fvars, gvars, svars, evars, tvars, ivars, mvars, wvars, kvars, lvars,
              cvars>>
\* the mouth sync's variables but the channel, the worker's but the head flag
fvarsButPwm == <<fnow, last_flap, mouth_open_until, last_rms, call, lastDrive, prevDrive,
                 chunk_ms>>
gvarsButHead == <<snow, song_start_time, head_move_queue, swalive, head_move_active,
                  head_move_end_time, drums_peak, next_beat_time, ap_head_out, nsongs,
                  fired, beat, song>>
notMotor == <<pvars, fvarsButPwm, gvarsButHead, svars, evars, tvars, ivars, mvars, wvars,
              lvars, cvars, dvars>>
notInterlude == <<pvars, fvars, gvarsButHead, svars, evars, tvars, ivars, mvars, wvars,
                  kvars, cvars, dvars>>

NoItem == -1

Range(s) == {s[i] : i \in 1..Len(s)}

(***************************************************************************)
(* The motor channels (core/movements.py)                                  *)
(***************************************************************************)
\* the speeds np.interp maps the envelope to: [25, 100]
SpeedLo == 25
SpeedHi == 100

\* (mutant) a brake that toggles the channel
MutBrakeMotor == mouth_pwm' = IF mouth_pwm = 0 THEN SpeedHi ELSE 0

\* brake_motor(MOUTH_IN1, MOUTH_IN2): tx_pwm(..., 0) and gpio_write(..., 0) on both pins
BrakeMotor == mouth_pwm' = 0

\* run_motor(MOUTH_IN1, MOUTH_IN2, speed_percent, duration, brake=False):
\* the PWM stays on after the sleep
RunMotor(speed_percent) == mouth_pwm' = speed_percent

\* (mutant) a stop_all_motors() that leaves the mouth channel as it is
MutStopAllMotors ==
    /\ mv_head_out' = FALSE
    /\ UNCHANGED mouth_pwm

\* stop_all_motors(): move_head("off"), then PWM and level 0 on every motor pin
StopAllMotors ==
    /\ mv_head_out' = FALSE
    /\ BrakeMotor

(***************************************************************************)
(* Playback: queue, worker, flush, drain wait                              *)
(***************************************************************************)
InitPlayback ==
    /\ playback_queue = <<>>
    /\ unfinished_tasks = 0
    /\ playback_done_event = FALSE
    /\ wpc = "dead"
    /\ witem = NoItem
    /\ wfailed = FALSE
    /\ written = <<>>
    /\ discarded = {}
    /\ lost = {}
    /\ nput = 0
    /\ nstop = 0
    /\ fpc = "idle"
    /\ fkind = "stop"
    /\ jpc = "idle"
    /\ jsnap = 0
    /\ fsnap = 0

\* Queue.put(item): append and count the task
QueuePut(item) ==
    /\ playback_queue' = Append(playback_queue, item)
    /\ unfinished_tasks' = unfinished_tasks + 1

\* a producer enqueues the next audio chunk
EnqueueChunk ==
    /\ nput < MaxItems
    /\ nput' = nput + 1
    /\ QueuePut(nput + 1)
    /\ UNCHANGED <<playback_done_event, wpc, witem, wfailed, written, discarded, nstop,
                   fpc, fkind, jpc, jsnap, fsnap, lost>>
    /\ UNCHANGED notPlayback

\* a producer enqueues the stop signal: playback_queue.put(None)
EnqueueStop ==
    /\ nstop < MaxStops
    /\ nstop' = nstop + 1
    /\ QueuePut(STOP)
    /\ UNCHANGED <<playback_done_event, wpc, witem, wfailed, written, discarded, nput,
                   fpc, fkind, jpc, jsnap, fsnap, lost>>
    /\ UNCHANGED notPlayback

\* ensure_playback_worker_started: a thread is created only when none is alive
EnsureWorkerStarted ==
    /\ wpc = "dead"
    /\ wpc' = "open"
    /\ wfailed' = FALSE
    /\ UNCHANGED <<playback_queue, unfinished_tasks, playback_done_event, witem, written,
                   discarded, nput, nstop, fpc, fkind, jpc, jsnap, fsnap, lost>>
    /\ UNCHANGED notPlayback

\* session start clears the event before it starts the worker
ClearDoneEvent ==
    /\ playback_done_event = TRUE
    /\ playback_done_event' = FALSE
    /\ UNCHANGED <<playback_queue, unfinished_tasks, wpc, witem, wfailed, written,
                   discarded, nput, nstop, fpc, fkind, jpc, jsnap, fsnap, lost>>
    /\ UNCHANGED notPlayback

\* (mutant) a finally block that sets the event and leaves the motors running
MutWorkerExit(failed) ==
    /\ wpc' = "dead"
    /\ wfailed' = failed
    /\ playback_done_event' = TRUE
    /\ UNCHANGED <<mv_head_out, mouth_pwm>>
    /\ exit_out' = [head |-> mv_head_out, mouth |-> mouth_pwm]
    /\ UNCHANGED <<fvarsButPwm, gvarsButHead, svars, evars, tvars, ivars, mvars, kvars,
                   lvars, cvars, dvars>>

\* the worker's except/finally: the event is set, the motors are stopped, the thread ends.
\* No task_done() is called for an item the worker holds.
WorkerExit(failed) ==
    /\ wpc' = "dead"
    /\ wfailed' = failed
    /\ playback_done_event' = TRUE
    /\ StopAllMotors
    /\ exit_out' = [head |-> mv_head_out, mouth |-> mouth_pwm]
    /\ UNCHANGED <<fvarsButPwm, gvarsButHead, svars, evars, tvars, ivars, mvars, kvars,
                   lvars, cvars, dvars>>

\* with sd.OutputStream(...) as stream: the stream opens
WorkerOpenOk ==
    /\ wpc = "open"
    /\ wpc' = "get"
    /\ UNCHANGED <<playback_queue, unfinished_tasks, playback_done_event, witem, wfailed,
                   written, discarded, nput, nstop, fpc, fkind, jpc, jsnap, fsnap, lost>>
    /\ UNCHANGED notPlayback

\* opening the stream raises
WorkerOpenFail ==
    /\ wpc = "open"
    /\ WorkerExit(TRUE)
    /\ UNCHANGED <<playback_queue, unfinished_tasks, witem, written, discarded, nput,
                   nstop, fpc, fkind, jpc, jsnap, fsnap, lost>>

\* item = self.playback_queue.get()
WorkerGet ==
    /\ wpc = "get"
    /\ playback_queue # <<>>
    /\ witem' = Head(playback_queue)
    /\ playback_queue' = Tail(playback_queue)
    /\ wpc' = "item"
    /\ UNCHANGED <<unfinished_tasks, playback_done_event, wfailed, written, discarded,
                   nput, nstop, fpc, fkind, jpc, jsnap, fsnap, lost>>
    /\ UNCHANGED notPlayback

\* item is None: task_done(), break, then the finally block
WorkerStopSignal ==
    /\ wpc = "item"
    /\ witem = STOP
    /\ unfinished_tasks' = unfinished_tasks - 1
    /\ witem' = NoItem
    /\ WorkerExit(FALSE)
    /\ UNCHANGED <<playback_queue, written, discarded, nput, nstop, fpc, fkind, jpc, jsnap,
                   fsnap, lost>>

\* an audio item: mouth sync and stream.write for its chunks, then task_done()
\* and last_played_time = time.time()
WorkerProcess ==
    /\ wpc = "item"
    /\ witem # STOP
    /\ written' = Append(written, witem)
    /\ unfinished_tasks' = unfinished_tasks - 1
    /\ witem' = NoItem
    /\ wpc' = "get"
    /\ mgr_last_played' = inow
    /\ UNCHANGED <<playback_queue, playback_done_event, wfailed, discarded, nput, nstop,
                   fpc, fkind, jpc, jsnap, fsnap, lost>>
    /\ UNCHANGED <<fvars, gvars, svars, evars, tvars>>
    /\ UNCHANGED ivarsButPlayed
    /\ UNCHANGED ovars

\* stream.write raises while the worker holds an audio item
WorkerWriteFail ==
    /\ wpc = "item"
    /\ witem # STOP
    /\ lost' = lost \cup {witem}
    /\ witem' = NoItem
    /\ WorkerExit(TRUE)
    /\ UNCHANGED <<playback_queue, unfinished_tasks, written, discarded, nput,
                   nstop, fpc, fkind, jpc, jsnap, fsnap>>

\* stop_playback() or the barge-in flush of handle_message is entered
FlushBegin ==
    /\ fpc = "idle"
    /\ \E k \in {"stop", "bargein"} : fkind' = k
    /\ fpc' = "check"
    /\ fsnap' = nput
    /\ UNCHANGED <<playback_queue, unfinished_tasks, playback_done_event, wpc, witem,
                   wfailed, written, discarded, nput, nstop, jpc, jsnap, lost>>
    /\ UNCHANGED notPlayback

\* while not self.playback_queue.empty(): the queue holds an item
FlushCheckMore ==
    /\ fpc = "check"
    /\ playback_queue # <<>>
    /\ fpc' = "pop"
    /\ UNCHANGED <<playback_queue, unfinished_tasks, playback_done_event, wpc, witem,
                   wfailed, written, discarded, nput, nstop, fkind, jpc, jsnap, fsnap, lost>>
    /\ UNCHANGED notPlayback

\* the loop is left; stop_playback then sets the event, the barge-in flush does not
FlushLeave ==
    /\ playback_done_event' = IF fkind = "stop" THEN TRUE ELSE playback_done_event
    /\ fpc' = "idle"
    /\ UNCHANGED <<playback_queue, unfinished_tasks, wpc, witem, wfailed, written,
                   discarded, nput, nstop, fkind, jpc, jsnap, fsnap, lost>>

\* while not self.playback_queue.empty(): the queue is empty
FlushCheckEmpty ==
    /\ fpc = "check"
    /\ playback_queue = <<>>
    /\ FlushLeave
    /\ UNCHANGED notPlayback

\* (mutant) a flush that reads the head of the queue without removing it
MutFlushPop ==
    /\ fpc = "pop"
    /\ playback_queue # <<>>
    /\ discarded' = discarded \cup ({Head(playback_queue)} \ {STOP})
    /\ unfinished_tasks' = unfinished_tasks - 1
    /\ fpc' = "check"
    /\ UNCHANGED <<playback_queue, playback_done_event, wpc, witem, wfailed, written, lost,
                   nput, nstop, fkind, jpc, jsnap, fsnap>>
    /\ UNCHANGED notPlayback

\* get_nowait(); task_done(): the head of the queue is dropped unprocessed
FlushPop ==
    /\ fpc = "pop"
    /\ playback_queue # <<>>
    /\ discarded' = discarded \cup ({Head(playback_queue)} \ {STOP})
    /\ playback_queue' = Tail(playback_queue)
    /\ unfinished_tasks' = unfinished_tasks - 1
    /\ fpc' = "check"
    /\ UNCHANGED <<playback_done_event, wpc, witem, wfailed, written, nput, nstop, fkind,
                   jpc, jsnap, fsnap, lost>>
    /\ UNCHANGED notPlayback

\* get_nowait() raises Empty (the worker took the item first): except ... break
FlushPopEmpty ==
    /\ fpc = "pop"
    /\ playback_queue = <<>>
    /\ FlushLeave
    /\ UNCHANGED notPlayback

\* a caller enters playback_queue.join()
JoinBegin ==
    /\ jpc = "idle"
    /\ jpc' = "waiting"
    /\ jsnap' = nput
    /\ UNCHANGED <<playback_queue, unfinished_tasks, playback_done_event, wpc, witem,
                   wfailed, written, discarded, nput, nstop, fpc, fkind, fsnap, lost>>
    /\ UNCHANGED notPlayback

\* (mutant) a drain wait that only looks at the queue being empty
MutJoinReturn ==
    /\ jpc = "waiting"
    /\ playback_queue = <<>>
    /\ jpc' = "returned"
    /\ UNCHANGED <<playback_queue, unfinished_tasks, playback_done_event, wpc, witem,
                   wfailed, written, discarded, lost, nput, nstop, fpc, fkind, jsnap, fsnap>>
    /\ UNCHANGED notPlayback

\* join() returns once it sees unfinished_tasks at zero
JoinReturn ==
    /\ jpc = "waiting"
    /\ unfinished_tasks = 0
    /\ jpc' = "returned"
    /\ UNCHANGED <<playback_queue, unfinished_tasks, playback_done_event, wpc, witem,
                   wfailed, written, discarded, nput, nstop, fpc, fkind, jsnap, fsnap, lost>>
    /\ UNCHANGED notPlayback

\* the caller goes on after the drain wait
JoinDone ==
    /\ jpc = "returned"
    /\ jpc' = "idle"
    /\ UNCHANGED <<playback_queue, unfinished_tasks, playback_done_event, wpc, witem,
                   wfailed, written, discarded, nput, nstop, fpc, fkind, jsnap, fsnap, lost>>
    /\ UNCHANGED notPlayback

NextPlayback ==
    \/ EnqueueChunk
    \/ EnqueueStop
    \/ EnsureWorkerStarted
    \/ ClearDoneEvent
    \/ WorkerOpenOk
    \/ WorkerOpenFail
    \/ WorkerGet
    \/ WorkerStopSignal
    \/ WorkerProcess
    \/ WorkerWriteFail
    \/ FlushBegin
    \/ FlushCheckMore
    \/ FlushCheckEmpty
    \/ FlushPop
    \/ FlushPopEmpty
    \/ JoinBegin
    \/ JoinReturn
    \/ JoinDone

(***************************************************************************)
(* Envelope mouth sync: flap_from_pcm_chunk                                *)
(***************************************************************************)
\* flap_from_pcm_chunk(audio, threshold=1500, min_flap_gap=0.1, ...)
Threshold == 1500
MinFlapGapMs == 100
\* DEFAULT_CHUNK_MS
ChunkMs == 50
\* the values of chunk_ms: the function's default, DEFAULT_CHUNK_MS, one above 70 ms
ChunkSizes == {40, ChunkMs, 80}
\* the time span (ms) of a last, shorter slice of a queue item
ShortSpanMs == 10
\* the time spans of the chunks the worker hands over: mono[i : i + chunk_len]
ChunkSpans == {chunk_ms, ShortSpanMs}
\* alpha = 1  # smoothing factor
Alpha == 1
\* np.interp(normalized, [0.005, 0.15], [25, 100]) and [15, 70]
DurLoMs == 15
DurHiMs == 70

\* RMS values are carried in hundredths: rms = r / 100
\* normalized = rms / 32768.0 reaches 0.005 at r = NormLo and 0.15 at r = NormHi
NormLo == 16384
NormHi == 491520

Min(a, b) == IF a <= b THEN a ELSE b
Max(a, b) == IF a >= b THEN a ELSE b

RECURSIVE Gcd(_, _)
Gcd(a, b) == IF b = 0 THEN a ELSE Gcd(b, a % b)

\* a * x / b rounded down, computed without leaving 32 bits
MulDiv(a, x, b) ==
    LET a1 == a \div Gcd(a, b)
        b1 == b \div Gcd(a, b)
    IN  a1 * (x \div b1) + (a1 * (x % b1)) \div b1

\* rms = alpha * rms + (1 - alpha) * _last_rms
Smooth(r, prev) == Alpha * r + (1 - Alpha) * prev

\* speed = int(np.clip(np.interp(normalized, [0.005, 0.15], [25, 100]), 25, 100))
FlapSpeed(r) ==
    LET interp == IF r <= NormLo THEN SpeedLo
                  ELSE IF r >= NormHi THEN SpeedHi
                  ELSE SpeedLo + MulDiv(SpeedHi - SpeedLo, r - NormLo, NormHi - NormLo)
    IN  Min(Max(interp, SpeedLo), SpeedHi)

\* (mutant) a duration that is not clamped to chunk_ms
MutFlapDuration(r) ==
    LET interp == IF r <= NormLo THEN DurLoMs * 1000
                  ELSE IF r >= NormHi THEN DurHiMs * 1000
                  ELSE DurLoMs * 1000
                       + MulDiv((DurHiMs - DurLoMs) * 1000, r - NormLo, NormHi - NormLo)
    IN  Max(interp, DurLoMs * 1000)

\* duration_ms = np.clip(np.interp(normalized, [0.005, 0.15], [15, 70]), 15, chunk_ms),
\* in microseconds (rounded down to a whole microsecond)
FlapDuration(r) ==
    LET interp == IF r <= NormLo THEN DurLoMs * 1000
                  ELSE IF r >= NormHi THEN DurHiMs * 1000
                  ELSE DurLoMs * 1000
                       + MulDiv((DurHiMs - DurLoMs) * 1000, r - NormLo, NormHi - NormLo)
    IN  Min(Max(interp, DurLoMs * 1000), chunk_ms * 1000)

\* the RMS levels of the chunks fed to the mouth sync (hundredths):
\* silence, normalized 0.005, just below and at half the threshold, at and just
\* above the threshold, normalized 0.15 and above it
RmsLevels == {0, NormLo, 74999, 75000, 150000, 150001, NormHi, 600000}

\* the time that passes between two calls (resampling, the blocking stream.write)
FlapSteps == {10000, 50000}

NoDrive == [at |-> 0 - 1, speed |-> 0, dur |-> 0]
Brake == [op |-> "brake", speed |-> 0, dur |-> 0]
Drive(speed, dur) == [op |-> "drive", speed |-> speed, dur |-> dur]

InitFlap ==
    /\ fnow = FlapStart
    /\ last_flap = 0
    /\ mouth_open_until = 0
    /\ last_rms = 0
    /\ call = [empty |-> TRUE, rms |-> 0, span |-> 0, at |-> 0, cmds |-> <<>>]
    /\ chunk_ms \in ChunkSizes
    /\ lastDrive = NoDrive
    /\ prevDrive = NoDrive
    /\ mouth_pwm = 0

\* if audio.size == 0: return
FlapEmptyChunk ==
    /\ call' = [empty |-> TRUE, rms |-> 0, span |-> 0, at |-> fnow, cmds |-> <<>>]
    /\ UNCHANGED <<fnow, last_flap, mouth_open_until, last_rms, lastDrive, prevDrive,
                   chunk_ms, mouth_pwm>>

\* (mutant) a mouth sync that ignores the minimum gap between flaps
MutFlapDebounced(rms) == rms <= Threshold * 100

\* if rms <= threshold or (now - _last_flap) < min_flap_gap: return
FlapDebounced(rms) ==
    \/ rms <= Threshold * 100
    \/ fnow - last_flap < MinFlapGapMs * 1000

\* (mutant) a mouth sync that still counts the window as open at its deadline
MutFlapTooQuiet(rms) ==
    /\ 2 * rms < Threshold * 100
    /\ fnow > mouth_open_until

\* if rms < threshold / 2 and now >= _mouth_open_until
FlapTooQuiet(rms) ==
    /\ 2 * rms < Threshold * 100
    /\ fnow >= mouth_open_until

\* flap_from_pcm_chunk on a non-empty chunk whose RMS is r/100 and which holds
\* span milliseconds of audio
FlapChunk(r, span) ==
    LET rms == Smooth(r, last_rms)
        speed == FlapSpeed(rms)
        dur == FlapDuration(rms)
    IN  /\ last_rms' = rms
        /\ UNCHANGED chunk_ms
        /\ IF FlapTooQuiet(rms)
           THEN \* stop_mouth(); return
                /\ call' = [empty |-> FALSE, rms |-> r, span |-> span, at |-> fnow,
                            cmds |-> <<Brake>>]
                /\ BrakeMotor
                /\ UNCHANGED <<fnow, last_flap, mouth_open_until, lastDrive, prevDrive>>
           ELSE IF FlapDebounced(rms)
           THEN /\ call' = [empty |-> FALSE, rms |-> r, span |-> span, at |-> fnow, cmds |-> <<>>]
                /\ UNCHANGED <<fnow, last_flap, mouth_open_until, lastDrive, prevDrive,
                               mouth_pwm>>
           ELSE \* move_mouth(speed, duration, brake=False): run_motor sleeps for duration
                /\ fnow + dur <= FlapStart + FlapHorizon
                /\ last_flap' = fnow
                /\ mouth_open_until' = fnow + dur
                /\ call' = [empty |-> FALSE, rms |-> r, span |-> span, at |-> fnow,
                            cmds |-> <<Drive(speed, dur)>>]
                /\ prevDrive' = lastDrive
                /\ lastDrive' = [at |-> fnow, speed |-> speed, dur |-> dur]
                /\ RunMotor(speed)
                /\ fnow' = fnow + dur

FlapCall ==
    /\ \E r \in RmsLevels, span \in ChunkSpans : FlapChunk(r, span)
    /\ UNCHANGED notFlap

FlapEmptyCall ==
    /\ FlapEmptyChunk
    /\ UNCHANGED notFlap

\* time passes between two chunks
FlapTick ==
    /\ \E d \in FlapSteps :
          /\ fnow + d <= FlapStart + FlapHorizon
          /\ fnow' = fnow + d
    /\ UNCHANGED <<last_flap, mouth_open_until, last_rms, call, lastDrive, prevDrive,
                   chunk_ms, mouth_pwm>>
    /\ UNCHANGED notFlap

NextFlap ==
    \/ FlapCall
    \/ FlapEmptyCall
    \/ FlapTick

(***************************************************************************)
(* The worker's head scheduler and beat sync                               *)
(***************************************************************************)
\* self.beat_length = 0.5, self.compensate_tail_beats = 0.0 (quarters of a second, beats)
BeatLength == 2
CompensateTailBeats == 0
\* if drums_peak > 1500 and not head_out
DrumsThreshold == 1500

\* rms_drums of a song chunk: silent, at the threshold, above it
DrumLevels == {0, 1500, 1501}

\* head_moves of a song's metadata: (start, duration) pairs
HeadSchedules == {<<>>, <<[t |-> 0, d |-> 1]>>, <<[t |-> 1, d |-> 2], [t |-> 2, d |-> 1]>>}

\* "bpm": None
NoBpm == 0 - 1
\* BPM of a song whose metadata names one, and of a slower song
SongBpm == 120
SlowBpm == 60

\* 60.0 / bpm, doubled under half_tempo_tail_flap, in quarters of a second
SongBeatLength(bpm, half) == (240 \div bpm) * (IF half THEN 2 ELSE 1)

\* metadata.txt of the song: absent, without a bpm line, with bpm and head moves,
\* with a slower bpm, with half_tempo_tail_flap=true
MetadataFiles ==
    {[exists |-> FALSE, bpm |-> NoBpm, head_moves |-> <<>>, half_tempo |-> FALSE],
     [exists |-> TRUE, bpm |-> NoBpm, head_moves |-> <<>>, half_tempo |-> FALSE],
     [exists |-> TRUE, bpm |-> SlowBpm, head_moves |-> <<>>, half_tempo |-> FALSE],
     [exists |-> TRUE, bpm |-> SongBpm, head_moves |-> <<>>, half_tempo |-> TRUE]}
    \cup {[exists |-> TRUE, bpm |-> SongBpm, head_moves |-> hm, half_tempo |-> FALSE] :
              hm \in HeadSchedules}

\* load_metadata: the defaults, overwritten by the lines of the file when it exists
LoadMetadata(f) ==
    IF f.exists
    THEN [bpm |-> f.bpm, head_moves |-> f.head_moves, tail_threshold |-> 1500,
          gain |-> 1, compensate_tail |-> 0, half_tempo_tail_flap |-> f.half_tempo]
    ELSE [bpm |-> NoBpm, head_moves |-> <<>>, tail_threshold |-> 1500,
          gain |-> 1, compensate_tail |-> 0, half_tempo_tail_flap |-> FALSE]

NoSong == [valid |-> FALSE, exists |-> FALSE, bpm |-> NoBpm, raised |-> FALSE,
           started |-> FALSE, audio_beat_length |-> 0]

NoBeat == [valid |-> FALSE, crossed |-> FALSE, peak |-> 0, headExt |-> FALSE, flaps |-> 0,
           crashed |-> FALSE, peakAfter |-> 0, advance |-> 0]

InitSong ==
    /\ snow = 0
    /\ song_start_time = 0
    /\ head_move_queue = <<>>
    /\ swalive = FALSE
    /\ head_move_active = FALSE
    /\ head_move_end_time = 0
    /\ drums_peak = 0
    /\ next_beat_time = 0
    /\ ap_head_out = "undef"
    /\ mv_head_out = FALSE
    /\ nsongs = 0
    /\ fired = <<>>
    /\ beat = NoBeat
    /\ song = NoSong

\* a new worker thread: the locals of _playback_worker start afresh
WorkerLocalsFresh ==
    /\ head_move_active' = FALSE
    /\ head_move_end_time' = 0
    /\ drums_peak' = 0
    /\ next_beat_time' = 0

\* play_song: reset_for_new_song(), the metadata is loaded, the head moves are queued;
\* BPM = metadata.get("bpm", 120) is None when no line of the file set it, and
\* 60.0 / BPM then raises TypeError before the worker is ensured.  The beat length
\* is assigned to the attribute of the module core.audio (audio.beat_length = ...)
PlaySongLoads(f) ==
    LET metadata == LoadMetadata(f)
        raised == metadata.bpm = NoBpm
    IN  /\ nsongs < MaxSongs
        /\ nsongs' = nsongs + 1
        /\ song_start_time' = snow
        /\ head_move_queue' =
              [i \in 1..Len(metadata.head_moves) |->
                  [song |-> nsongs + 1, idx |-> i,
                   t |-> metadata.head_moves[i].t, d |-> metadata.head_moves[i].d]]
        /\ swalive' = (swalive \/ ~raised)
        /\ IF swalive \/ raised
           THEN UNCHANGED <<head_move_active, head_move_end_time, drums_peak,
                            next_beat_time>>
           ELSE WorkerLocalsFresh
        /\ song' = [valid |-> TRUE, exists |-> f.exists, bpm |-> metadata.bpm,
                    raised |-> raised, started |-> ~raised,
                    audio_beat_length |->
                        IF raised THEN 0
                        ELSE SongBeatLength(metadata.bpm, metadata.half_tempo_tail_flap)]
        /\ UNCHANGED <<snow, ap_head_out, fired, beat>>

PlaySong(f) ==
    /\ PlaySongLoads(f)
    /\ UNCHANGED mv_head_out
    /\ UNCHANGED notSong

PlaySongCall == \E f \in MetadataFiles : PlaySong(f)

\* say() ensures the worker while none is alive
SongEnsureWorker ==
    /\ ~swalive
    /\ swalive' = TRUE
    /\ WorkerLocalsFresh
    /\ UNCHANGED <<snow, song_start_time, head_move_queue, ap_head_out, mv_head_out, nsongs,
                   fired, beat, song>>
    /\ UNCHANGED notSong

\* if head_move_active and now >= head_move_end_time: the window of the fired event ends
HeadWindowEnds == head_move_active /\ snow >= head_move_end_time

\* if now - song_start_time >= move_time
HeadDue(t) == snow - song_start_time >= t

\* (mutant) a scheduler that fires without looking at head_move_active
MutHeadFires ==
    /\ head_move_queue # <<>>
    /\ HeadDue(Head(head_move_queue).t)

\* if not head_move_active and not self.head_move_queue.empty(): peek, and fire when due
HeadFires ==
    /\ ~(head_move_active /\ ~HeadWindowEnds)
    /\ head_move_queue # <<>>
    /\ HeadDue(Head(head_move_queue).t)

\* the head check the worker runs for every item it dequeues.  apAfter and mvAfter are
\* audio_playback.head_out and movements.head_out after it.
ApAfterHead == IF HeadFires THEN "true" ELSE IF HeadWindowEnds THEN "false" ELSE ap_head_out
MvAfterHead == IF HeadFires THEN TRUE ELSE IF HeadWindowEnds THEN FALSE ELSE mv_head_out

HeadCheck ==
    /\ head_move_active' = IF HeadFires THEN TRUE
                           ELSE IF HeadWindowEnds THEN FALSE ELSE head_move_active
    /\ head_move_end_time' = IF HeadFires THEN snow + Head(head_move_queue).d
                             ELSE head_move_end_time
    /\ head_move_queue' = IF HeadFires THEN Tail(head_move_queue) ELSE head_move_queue
    /\ fired' = IF HeadFires
                THEN Append(fired, Head(head_move_queue))
                ELSE fired

\* the worker's finally: stop_all_motors() calls move_head("off")
SongWorkerExit ==
    /\ swalive' = FALSE
    /\ mv_head_out' = FALSE

\* the worker dequeues a raw or tts item: the head check, then mouth sync and write
SongRawItem ==
    /\ swalive
    /\ HeadCheck
    /\ ap_head_out' = ApAfterHead
    /\ mv_head_out' = MvAfterHead
    /\ UNCHANGED <<snow, song_start_time, swalive, drums_peak, next_beat_time, nsongs, beat,
                   song>>
    /\ UNCHANGED notSong

\* the worker dequeues the stop signal: the head check, then break and the finally block
SongStopItem ==
    /\ swalive
    /\ HeadCheck
    /\ ap_head_out' = ApAfterHead
    /\ SongWorkerExit
    /\ UNCHANGED <<snow, song_start_time, drums_peak, next_beat_time, nsongs, beat, song>>
    /\ UNCHANGED notSong

\* the worker dequeues a song item whose drums envelope is rms_drums:
\* the head check, the running peak, the beat boundary, then the write
SongItem(rms_drums) ==
    LET peak == IF rms_drums > drums_peak THEN rms_drums ELSE drums_peak
        adjusted_now == (snow - song_start_time) + CompensateTailBeats * BeatLength
        crossed == adjusted_now >= next_beat_time
        loud == peak > DrumsThreshold
        \* "not head_out" reads a global the worker may never have assigned: NameError
        crashed == crossed /\ loud /\ ApAfterHead = "undef"
        flap == crossed /\ loud /\ ApAfterHead = "false"
    IN  /\ swalive
        /\ nsongs > 0
        /\ HeadCheck
        /\ ap_head_out' = ApAfterHead
        /\ IF crashed
           THEN /\ SongWorkerExit
                /\ drums_peak' = peak
                /\ UNCHANGED next_beat_time
           ELSE /\ mv_head_out' = MvAfterHead
                /\ drums_peak' = IF crossed THEN 0 ELSE peak
                /\ next_beat_time' = IF crossed THEN next_beat_time + BeatLength
                                     ELSE next_beat_time
                /\ UNCHANGED swalive
        /\ beat' = [valid |-> TRUE, crossed |-> crossed, peak |-> peak,
                    headExt |-> MvAfterHead, flaps |-> IF flap THEN 1 ELSE 0,
                    crashed |-> crashed,
                    peakAfter |-> drums_peak', advance |-> next_beat_time' - next_beat_time]
        /\ UNCHANGED <<snow, song_start_time, nsongs, song>>
        /\ UNCHANGED notSong

SongChunk == \E r \in DrumLevels : SongItem(r)

\* say(), play_audio_with_head_movement or the interlude routine: move_head("on")
ExtHeadOn ==
    /\ ~mv_head_out
    /\ mv_head_out' = TRUE
    /\ UNCHANGED <<snow, song_start_time, head_move_queue, swalive, head_move_active,
                   head_move_end_time, drums_peak, next_beat_time, ap_head_out, nsongs,
                   fired, beat, song>>
    /\ UNCHANGED notSong

\* the same callers: move_head("off")
ExtHeadOff ==
    /\ mv_head_out
    /\ mv_head_out' = FALSE
    /\ UNCHANGED <<snow, song_start_time, head_move_queue, swalive, head_move_active,
                   head_move_end_time, drums_peak, next_beat_time, ap_head_out, nsongs,
                   fired, beat, song>>
    /\ UNCHANGED notSong

\* a quarter of a second passes
SongTick ==
    /\ snow < SongHorizon
    /\ snow' = snow + 1
    /\ UNCHANGED <<song_start_time, head_move_queue, swalive, head_move_active,
                   head_move_end_time, drums_peak, next_beat_time, ap_head_out,
                   mv_head_out, nsongs, fired, beat, song>>
    /\ UNCHANGED notSong

NextSong ==
    \/ PlaySongCall
    \/ SongEnsureWorker
    \/ SongRawItem
    \/ SongStopItem
    \/ SongChunk
    \/ ExtHeadOn
    \/ ExtHeadOff
    \/ SongTick

(***************************************************************************)
(* Conversational session: start, stream loop, message handlers, post-turn *)
(* decision.  One character stands for one transcript delta.               *)
(***************************************************************************)
Letters == {"a"}
Whitespace == {" ", "\n"}
\* the deltas the assistant may send
Chars == {"a", "?"}
\* what response.audio_transcript.done appends
TranscriptEnd == <<"\n", "\n">>

\* RUN_MODE: unset, or one of the two mode names
RunModes == {"", "normal", "dory"}

\* Python truth value of a string
Truthy(m) == m # ""

RECURSIVE LStrip(_)
LStrip(s) == IF s # <<>> /\ Head(s) \in Whitespace THEN LStrip(Tail(s)) ELSE s

RECURSIVE RStrip(_)
RStrip(s) ==
    IF s # <<>> /\ s[Len(s)] \in Whitespace THEN RStrip(SubSeq(s, 1, Len(s) - 1)) ELSE s

\* str.strip()
Strip(s) == RStrip(LStrip(s))

\* re.search(r"[a-zA-Z]\?\s*$", s)
RegexFollowUp(s) ==
    \E i \in 1..(Len(s) - 1) :
        /\ s[i] \in Letters
        /\ s[i + 1] = "?"
        /\ \A j \in (i + 2)..Len(s) : s[j] \in Whitespace

\* the traits PERSONALITY has
Traits == {"humor", "sarcasm"}

IntVal(n) == [ty |-> "int", n |-> n]

\* the arguments of an update_personality call: (trait, value) pairs in dict order
ArgDicts ==
    { <<>>,
      <<[trait |-> "humor", val |-> IntVal(100)]>>,
      <<[trait |-> "humor", val |-> IntVal(101)]>>,
      <<[trait |-> "humor", val |-> IntVal(-1)]>>,
      <<[trait |-> "humor", val |-> [ty |-> "float", n |-> 70]]>>,
      <<[trait |-> "humor", val |-> [ty |-> "str", n |-> 70]]>>,
      <<[trait |-> "humor", val |-> [ty |-> "bool", n |-> 1]]>>,
      <<[trait |-> "charm", val |-> IntVal(70)]>>,
      <<[trait |-> "charm", val |-> IntVal(70)], [trait |-> "humor", val |-> IntVal(100)]>> }

\* hasattr(PERSONALITY, trait)
HasAttr(t) == t \in Traits

\* isinstance(val, int): bool is a subclass of int
IsInstanceInt(v) == v.ty \in {"int", "bool"}

Accepted(a) == HasAttr(a.trait) /\ IsInstanceInt(a.val)

\* the loop over args.items(): setattr / update_persona_ini for each accepted pair
RECURSIVE ApplyArgs(_, _)
ApplyArgs(p, args) ==
    IF args = <<>> THEN p
    ELSE ApplyArgs(IF Accepted(Head(args))
                     THEN [p EXCEPT ![Head(args).trait] = Head(args).val]
                     ELSE p,
                   Tail(args))

\* the list "changes"
Changes(args) == SelectSeq(args, Accepted)

InitSession ==
    /\ ws_client = "none"
    /\ ws_closed = FALSE
    /\ session_active = FALSE
    /\ committed = FALSE
    /\ first_text = TRUE
    /\ full_response_text = <<>>
    /\ user_spoke_after_assistant = FALSE
    /\ allow_mic_input = TRUE
    /\ session_initialized = FALSE
    /\ run_mode \in RunModes
    /\ personality = [t \in Traits |-> IntVal(50)]
    /\ persisted = [t \in Traits |-> IntVal(50)]
    /\ spc = "idle"
    /\ conns = 0
    /\ mic_on = FALSE
    /\ wd_tasks = 0
    /\ idle_expired = FALSE
    /\ wd_stops = 0
    /\ emitted = "none"

\* last_activity[0] = time.time()
Activity ==
    /\ idle_expired' = FALSE
    /\ wd_stops' = 0

\* run_stream: asyncio.create_task(self.mic_timeout_checker())
SpawnWatchdog ==
    /\ wd_tasks < MaxWatchdogs
    /\ wd_tasks' = wd_tasks + 1

\* (mutant) a start() that leaves the commit flag as it was
MutStartResets ==
    /\ Activity
    /\ committed' = committed
    /\ first_text' = TRUE
    /\ full_response_text' = <<>>
    /\ session_active' = TRUE
    /\ user_spoke_after_assistant' = FALSE
    /\ allow_mic_input' = TRUE

\* start(): the fields reset before the connection is looked at
StartResets ==
    /\ Activity
    /\ committed' = FALSE
    /\ first_text' = TRUE
    /\ full_response_text' = <<>>
    /\ session_active' = TRUE
    /\ user_spoke_after_assistant' = FALSE
    /\ allow_mic_input' = TRUE

\* start(): playback_done_event.clear(); ensure_playback_worker_started(CHUNK_MS)
StartPlayback ==
    /\ playback_done_event' = FALSE
    /\ wpc' = IF wpc = "dead" THEN "open" ELSE wpc
    /\ wfailed' = IF wpc = "dead" THEN FALSE ELSE wfailed
    /\ UNCHANGED <<playback_queue, unfinished_tasks, witem, written, discarded, lost,
                   nput, nstop, fpc, fkind, jpc, jsnap, fsnap>>

\* (mutant) a start() that connects whether or not a client is held
MutNeedsConnect == TRUE

\* start(): if self.ws_client is None
NeedsConnect == ws_client = "none"

\* OpenAIWebSocketClient(config); connect()
Connect ==
    /\ ws_client' = "open"
    /\ ws_closed' = FALSE
    /\ conns' = conns + 1

\* the socket of ws_client is open
SocketOpen == ws_client = "open" /\ ~ws_closed

\* the session is stopped: flag clear, microphone stopped, no socket open
Stopped == ~session_active /\ ~mic_on /\ ~SocketOpen

\* if self.ws_client: disconnect(); self.ws_client = None
Disconnect ==
    /\ ws_client' = "none"
    /\ conns' = IF SocketOpen THEN conns - 1 ELSE conns

\* start() from outside with no connection held: connect, then run_stream
SessionStartConnect ==
    /\ spc = "idle"
    /\ NeedsConnect
    /\ StartResets
    /\ Connect
    /\ StartPlayback
    /\ SpawnWatchdog
    /\ mic_on' = TRUE
    /\ spc' = "stream"
    /\ UNCHANGED <<session_initialized, run_mode, personality, persisted>>
    /\ UNCHANGED <<fvars, gvars, evars, xvars, tvars>>
    /\ emitted' = "none"

\* start() from outside, connect() raises socket.gaierror: the client object stays
\* assigned; the offline cue is enqueued and joined when the asset exists, which
\* returns only if a playback worker is there to consume it; then start() returns
StartNoNetwork(asset) ==
    /\ spc = "idle"
    /\ NeedsConnect
    /\ StartResets
    /\ ws_client' = "unconnected"
    /\ emitted' = IF asset THEN "cue" ELSE "none"
    /\ spc' = IF asset /\ wpc = "dead" THEN "cue_wait" ELSE "idle"
    /\ UNCHANGED <<conns, ws_closed, session_initialized, run_mode, personality, persisted>>
    /\ UNCHANGED mic_on
    /\ UNCHANGED wd_tasks
    /\ UNCHANGED notSession

SessionStartNoNetwork == \E asset \in BOOLEAN : StartNoNetwork(asset)

\* start() from outside with a client object held: straight to run_stream
SessionStartReuse ==
    /\ spc = "idle"
    /\ ~NeedsConnect
    /\ StartResets
    /\ StartPlayback
    /\ SpawnWatchdog
    /\ mic_on' = TRUE
    /\ spc' = "stream"
    /\ UNCHANGED <<conns, ws_client, ws_closed, session_initialized, run_mode, personality,
                   persisted>>
    /\ UNCHANGED <<fvars, gvars, evars, xvars, tvars>>
    /\ emitted' = "none"

\* the stream loop has a message to hand to handle_message
InStream ==
    /\ spc = "stream"
    /\ session_active
    /\ ws_client = "open"
    /\ ~ws_closed

\* stop_session()
StopSession ==
    /\ session_active' = FALSE
    /\ mic_on' = FALSE
    /\ Disconnect

\* a message of type WS_SESSION_UPDATED
EvSessionUpdated ==
    /\ InStream
    /\ session_initialized' = TRUE
    /\ UNCHANGED <<ws_client, ws_closed, session_active, committed, first_text,
                   full_response_text, user_spoke_after_assistant, allow_mic_input,
                   run_mode, personality, persisted, spc>>
    /\ UNCHANGED conns
    /\ UNCHANGED mic_on
    /\ UNCHANGED <<wd_tasks, idle_expired, wd_stops>>
    /\ UNCHANGED notSession
    /\ emitted' = "none"

\* an audio delta; interrupt: interrupt_event is set when it arrives (barge-in)
EvAudioDelta(interrupt) ==
    /\ InStream
    /\ committed' = (committed \/ session_initialized)
    /\ session_active' = ~interrupt
    /\ UNCHANGED <<ws_client, ws_closed, first_text, full_response_text,
                   user_spoke_after_assistant, allow_mic_input, session_initialized,
                   run_mode, personality, persisted, spc>>
    /\ UNCHANGED conns
    /\ UNCHANGED mic_on
    /\ Activity
    /\ UNCHANGED wd_tasks
    /\ UNCHANGED notSession
    /\ emitted' = IF ~committed /\ session_initialized THEN "commit" ELSE "none"

\* a transcript or text delta
EvTextDelta(c) ==
    /\ InStream
    /\ Len(full_response_text) < MaxText
    /\ allow_mic_input' = FALSE
    /\ first_text' = FALSE
    /\ user_spoke_after_assistant' = IF first_text THEN FALSE ELSE user_spoke_after_assistant
    /\ full_response_text' = Append(full_response_text, c)
    /\ UNCHANGED <<ws_client, ws_closed, session_active, committed, session_initialized,
                   run_mode, personality, persisted, spc>>
    /\ UNCHANGED conns
    /\ UNCHANGED mic_on
    /\ UNCHANGED <<wd_tasks, idle_expired, wd_stops>>
    /\ UNCHANGED notSession
    /\ emitted' = "none"

\* response.audio_transcript.done
EvTranscriptDone ==
    /\ InStream
    /\ Len(full_response_text) + Len(TranscriptEnd) <= MaxText
    /\ full_response_text' = full_response_text \o TranscriptEnd
    /\ UNCHANGED <<ws_client, ws_closed, session_active, committed, first_text,
                   user_spoke_after_assistant, allow_mic_input, session_initialized,
                   run_mode, personality, persisted, spc>>
    /\ UNCHANGED conns
    /\ UNCHANGED mic_on
    /\ UNCHANGED <<wd_tasks, idle_expired, wd_stops>>
    /\ UNCHANGED notSession
    /\ emitted' = "none"

\* function call update_personality with arguments args
EvUpdatePersonality(args) ==
    /\ InStream
    /\ personality' = ApplyArgs(personality, args)
    /\ persisted' = ApplyArgs(persisted, args)
    /\ IF Changes(args) # <<>>
         THEN /\ user_spoke_after_assistant' = TRUE
              /\ full_response_text' = <<>>
              /\ Activity
         ELSE UNCHANGED <<user_spoke_after_assistant, full_response_text, idle_expired,
                          wd_stops>>
    /\ UNCHANGED wd_tasks
    /\ UNCHANGED <<ws_client, ws_closed, session_active, committed, first_text,
                   allow_mic_input, session_initialized, run_mode, spc>>
    /\ UNCHANGED conns
    /\ UNCHANGED mic_on
    /\ UNCHANGED notSession
    /\ emitted' = "none"

\* response.done, once the drain wait has returned
EvResponseDone ==
    /\ InStream
    /\ playback_done_event' = TRUE
    /\ allow_mic_input' = TRUE
    /\ IF run_mode = "dory"
         THEN StopSession
         ELSE UNCHANGED <<session_active, ws_client, conns, mic_on>>
    /\ UNCHANGED <<ws_closed, committed, first_text, full_response_text,
                   user_spoke_after_assistant, session_initialized, run_mode,
                   personality, persisted, spc>>
    /\ UNCHANGED <<playback_queue, unfinished_tasks, wpc, witem, wfailed, written,
                   discarded, lost, nput, nstop, fpc, fkind, jpc, jsnap, fsnap>>
    /\ Activity
    /\ UNCHANGED wd_tasks
    /\ UNCHANGED <<fvars, gvars, evars, xvars, tvars>>
    /\ emitted' = "none"

\* mic_callback with one captured frame; loud: its rms exceeds SILENCE_THRESHOLD.
\* The frame is sent whenever a client is held (the send fails on a socket that
\* is missing or closed)
MicFrame(loud) ==
    /\ mic_on
    /\ allow_mic_input
    /\ session_active
    /\ user_spoke_after_assistant' = (loud \/ user_spoke_after_assistant)
    /\ IF loud THEN Activity ELSE UNCHANGED <<idle_expired, wd_stops>>
    /\ emitted' = IF SocketOpen THEN "frame" ELSE "none"
    /\ UNCHANGED <<ws_client, ws_closed, session_active, committed, first_text,
                   full_response_text, allow_mic_input, session_initialized, run_mode,
                   personality, persisted, spc>>
    /\ UNCHANGED conns
    /\ UNCHANGED mic_on
    /\ UNCHANGED wd_tasks
    /\ UNCHANGED notSession

\* mic_callback with a frame louder than SILENCE_THRESHOLD
MicSpeech == MicFrame(TRUE)

\* mic_callback with a frame of silence
MicSilence == MicFrame(FALSE)

\* the idle time passes the timeout: no activity for MIC_TIMEOUT_SECONDS
IdleExpires ==
    /\ spc # "post"
    /\ wd_tasks > 0
    /\ ~idle_expired
    /\ idle_expired' = TRUE
    /\ UNCHANGED <<ws_client, ws_closed, session_active, committed, first_text,
                   full_response_text, user_spoke_after_assistant, allow_mic_input,
                   session_initialized, run_mode, personality, persisted, spc, conns,
                   mic_on, wd_tasks, wd_stops>>
    /\ UNCHANGED notSession
    /\ emitted' = "none"

\* a mic_timeout_checker task wakes and finds the flag clear: its loop ends
WatchdogExit ==
    /\ spc # "post"
    /\ wd_tasks > 0
    /\ ~session_active
    /\ wd_tasks' = wd_tasks - 1
    /\ UNCHANGED <<ws_client, ws_closed, session_active, committed, first_text,
                   full_response_text, user_spoke_after_assistant, allow_mic_input,
                   session_initialized, run_mode, personality, persisted, spc, conns,
                   mic_on, idle_expired, wd_stops>>
    /\ UNCHANGED notSession
    /\ emitted' = "none"

\* (mutant) a watchdog task that does not look at the flag before it stops the session
MutMicTimeout ==
    /\ spc # "post"
    /\ wd_tasks > 0
    /\ idle_expired
    /\ StopSession
    /\ wd_stops' = wd_stops + 1
    /\ wd_tasks' = wd_tasks - 1
    /\ UNCHANGED idle_expired
    /\ UNCHANGED <<ws_closed, committed, first_text, full_response_text,
                   user_spoke_after_assistant, allow_mic_input, session_initialized,
                   run_mode, personality, persisted, spc>>
    /\ UNCHANGED notSession
    /\ emitted' = "none"

\* a mic_timeout_checker task wakes with the flag set and the idle time over the
\* timeout: stop_session(), break
MicTimeout ==
    /\ spc # "post"
    /\ wd_tasks > 0
    /\ session_active
    /\ idle_expired
    /\ StopSession
    /\ wd_stops' = wd_stops + 1
    /\ wd_tasks' = wd_tasks - 1
    /\ UNCHANGED idle_expired
    /\ UNCHANGED <<ws_closed, committed, first_text, full_response_text,
                   user_spoke_after_assistant, allow_mic_input, session_initialized,
                   run_mode, personality, persisted, spc>>
    /\ UNCHANGED notSession
    /\ emitted' = "none"

\* stop_session() from outside, whenever the caller likes
StopSessionCall ==
    /\ spc # "post"
    /\ StopSession
    /\ UNCHANGED <<ws_closed, committed, first_text, full_response_text,
                   user_spoke_after_assistant, allow_mic_input, session_initialized,
                   run_mode, personality, persisted, spc>>
    /\ UNCHANGED <<wd_tasks, idle_expired, wd_stops>>
    /\ UNCHANGED notSession
    /\ emitted' = "none"

\* request_stop(), whenever the caller likes
RequestStop ==
    /\ spc # "post"
    /\ session_active' = FALSE
    /\ UNCHANGED <<ws_client, ws_closed, committed, first_text, full_response_text,
                   user_spoke_after_assistant, allow_mic_input, session_initialized,
                   run_mode, personality, persisted, spc>>
    /\ UNCHANGED conns
    /\ UNCHANGED mic_on
    /\ UNCHANGED <<wd_tasks, idle_expired, wd_stops>>
    /\ UNCHANGED notSession
    /\ emitted' = "none"

\* the loop sees the session inactive (break), or its socket was disconnected
StreamBreak ==
    /\ spc = "stream"
    /\ ~session_active
    /\ mic_on' = FALSE
    /\ spc' = "post"
    /\ UNCHANGED <<ws_client, ws_closed, session_active, committed, first_text,
                   full_response_text, user_spoke_after_assistant, allow_mic_input,
                   session_initialized, run_mode, personality, persisted>>
    /\ UNCHANGED conns
    /\ UNCHANGED <<wd_tasks, idle_expired, wd_stops>>
    /\ UNCHANGED notSession
    /\ emitted' = "none"

\* the remote end closes the socket (or has closed it): the async for ends
StreamEnd ==
    /\ spc = "stream"
    /\ session_active
    /\ ws_client = "open"
    /\ ws_closed' = TRUE
    /\ conns' = IF SocketOpen THEN conns - 1 ELSE conns
    /\ mic_on' = FALSE
    /\ spc' = "post"
    /\ UNCHANGED <<ws_client, session_active, committed, first_text, full_response_text,
                   user_spoke_after_assistant, allow_mic_input, session_initialized,
                   run_mode, personality, persisted>>
    /\ UNCHANGED <<wd_tasks, idle_expired, wd_stops>>
    /\ UNCHANGED notSession
    /\ emitted' = "none"

\* run_stream's except branch: the socket is missing or fails, or a handler raises
StreamCrash ==
    /\ spc = "stream"
    /\ session_active
    /\ ws_client # "none"
    /\ session_active' = FALSE
    /\ mic_on' = FALSE
    /\ spc' = "post"
    /\ UNCHANGED <<ws_client, ws_closed, committed, first_text, full_response_text,
                   user_spoke_after_assistant, allow_mic_input, session_initialized,
                   run_mode, personality, persisted>>
    /\ UNCHANGED conns
    /\ UNCHANGED <<wd_tasks, idle_expired, wd_stops>>
    /\ UNCHANGED notSession
    /\ emitted' = "none"

\* post_response_handling, session inactive: stop_all_motors, disconnect, no restart
PostInactive ==
    /\ spc = "post"
    /\ ~session_active
    /\ Disconnect
    /\ spc' = "idle"
    /\ UNCHANGED <<ws_closed, session_active, committed, first_text, full_response_text,
                   user_spoke_after_assistant, allow_mic_input, session_initialized,
                   run_mode, personality, persisted>>
    /\ UNCHANGED mic_on
    /\ UNCHANGED <<wd_tasks, idle_expired, wd_stops>>
    /\ StopAllMotors
    /\ UNCHANGED <<pvars, fvarsButPwm, gvarsButHead, evars, xvars, tvars>>
    /\ emitted' = "none"

\* (mutant) a follow-up test that does not look at run_mode
MutFollowUp ==
    /\ RegexFollowUp(Strip(full_response_text))
    /\ user_spoke_after_assistant

\* the condition under which post_response_handling restarts
FollowUp ==
    /\ ~Truthy(run_mode)
    /\ RegexFollowUp(Strip(full_response_text))
    /\ user_spoke_after_assistant

\* post_response_handling, follow-up: start() again on the client held
PostRestart ==
    /\ spc = "post"
    /\ session_active
    /\ FollowUp
    /\ StartResets
    /\ IF NeedsConnect THEN Connect ELSE UNCHANGED <<ws_client, ws_closed, conns>>
    /\ StartPlayback
    /\ SpawnWatchdog
    /\ mic_on' = TRUE
    /\ spc' = "stream"
    /\ UNCHANGED <<session_initialized, run_mode, personality, persisted>>
    /\ UNCHANGED <<fvars, gvars, evars, xvars, tvars>>
    /\ emitted' = "none"

\* post_response_handling, no follow-up: stop_all_motors, disconnect
PostEnd ==
    /\ spc = "post"
    /\ session_active
    /\ ~FollowUp
    /\ Disconnect
    /\ spc' = "idle"
    /\ UNCHANGED <<ws_closed, session_active, committed, first_text, full_response_text,
                   user_spoke_after_assistant, allow_mic_input, session_initialized,
                   run_mode, personality, persisted>>
    /\ UNCHANGED mic_on
    /\ UNCHANGED <<wd_tasks, idle_expired, wd_stops>>
    /\ StopAllMotors
    /\ UNCHANGED <<pvars, fvarsButPwm, gvarsButHead, evars, xvars, tvars>>
    /\ emitted' = "none"

EvAudio == \E interrupt \in BOOLEAN : EvAudioDelta(interrupt)

EvText == \E c \in Chars : EvTextDelta(c)

EvPersonality == \E args \in ArgDicts : EvUpdatePersonality(args)

NextSession ==
    \/ SessionStartConnect
    \/ SessionStartNoNetwork
    \/ SessionStartReuse
    \/ EvSessionUpdated
    \/ EvAudio
    \/ EvText
    \/ EvTranscriptDone
    \/ EvPersonality
    \/ EvResponseDone
    \/ MicSpeech
    \/ MicSilence
    \/ IdleExpires
    \/ WatchdogExit
    \/ MicTimeout
    \/ RequestStop
    \/ StopSessionCall
    \/ StreamBreak
    \/ StreamEnd
    \/ StreamCrash
    \/ PostInactive
    \/ PostRestart
    \/ PostEnd

(***************************************************************************)
(* Worker threads: ensure_playback_worker_started called from several      *)
(* threads, each worker opening its own output stream                      *)
(***************************************************************************)
\* the threads that call ensure_playback_worker_started: the asyncio loop that runs
\* the session and play_song, and the thread say() is run from
Callers == {"loop", "say"}

InitWorkers ==
    /\ threads = <<>>
    /\ tref = 0
    /\ epc = [c \in Callers |-> "idle"]

\* thread.is_alive()
Alive(t) == threads[t] \in {"starting", "streaming"}

\* not self._playback_thread or not self._playback_thread.is_alive()
NoLiveWorker == IF tref = 0 THEN TRUE ELSE ~Alive(tref)

\* ensure_playback_worker_started, the test: it passes and the caller goes on
EnsureCheck(c) ==
    /\ epc[c] = "idle"
    /\ NoLiveWorker
    /\ epc' = [epc EXCEPT ![c] = "checked"]
    /\ UNCHANGED <<threads, tref>>
    /\ UNCHANGED notWorkers

\* ensure_playback_worker_started, the body: threading.Thread(...), start()
EnsureStart(c) ==
    /\ epc[c] = "checked"
    /\ Len(threads) < MaxThreads
    /\ threads' = Append(threads, "starting")
    /\ tref' = Len(threads) + 1
    /\ epc' = [epc EXCEPT ![c] = "idle"]
    /\ UNCHANGED notWorkers

\* _playback_worker: with sd.OutputStream(...) as stream
ThreadOpensStream(t) ==
    /\ threads[t] = "starting"
    /\ threads' = [threads EXCEPT ![t] = "streaming"]
    /\ UNCHANGED <<tref, epc>>
    /\ UNCHANGED notWorkers

\* _playback_worker returns: the stop signal, or an exception opening or writing
ThreadEnds(t) ==
    /\ Alive(t)
    /\ threads' = [threads EXCEPT ![t] = "dead"]
    /\ UNCHANGED <<tref, epc>>
    /\ UNCHANGED notWorkers

EnsureChecks == \E c \in Callers : EnsureCheck(c)

EnsureStarts == \E c \in Callers : EnsureStart(c)

ThreadOpens == \E t \in 1..Len(threads) : ThreadOpensStream(t)

ThreadReturns == \E t \in 1..Len(threads) : ThreadEnds(t)

NextWorkers ==
    \/ EnsureChecks
    \/ EnsureStarts
    \/ ThreadOpens
    \/ ThreadReturns

(***************************************************************************)
(* Operations on a target that is already stopped                          *)
(***************************************************************************)
\* stop_playback() with no other thread at the queue during the call: every item
\* still queued is taken with get_nowait() and task_done(), then the event is set
StopPlayback ==
    /\ fpc = "idle"
    /\ discarded' = discarded \cup (Range(playback_queue) \ {STOP})
    /\ unfinished_tasks' = unfinished_tasks - Len(playback_queue)
    /\ playback_queue' = <<>>
    /\ playback_done_event' = TRUE
    /\ noops' = IF playback_queue = <<>> THEN noops \cup {"stop_playback"} ELSE noops
    /\ UNCHANGED <<wpc, witem, wfailed, written, lost, nput, nstop, fpc, fkind, jpc,
                   jsnap, fsnap>>
    /\ UNCHANGED <<hpc, mpc, audio_buffer, saved, hsnap, interrupted>>
    /\ UNCHANGED <<fvars, gvars, svars, evars, xvars>>

\* stop_session() from outside, the stopped state it finds recorded
StopSessionAgain ==
    /\ spc # "post"
    /\ StopSession
    /\ noops' = IF Stopped THEN noops \cup {"stop_session"} ELSE noops
    /\ emitted' = "none"
    /\ UNCHANGED <<ws_closed, committed, first_text, full_response_text,
                   user_spoke_after_assistant, allow_mic_input, session_initialized,
                   run_mode, personality, persisted, spc>>
    /\ UNCHANGED <<wd_tasks, idle_expired, wd_stops>>
    /\ UNCHANGED <<hpc, mpc, audio_buffer, saved, hsnap, interrupted>>
    /\ UNCHANGED <<pvars, fvars, gvars, evars, xvars>>

\* move_mouth(speed_percent, duration, brake=False)
MoveMouth(speed_percent) ==
    /\ RunMotor(speed_percent)
    /\ UNCHANGED fvarsButPwm
    /\ UNCHANGED <<pvars, gvars, svars, evars, xvars, tvars>>

MoveMouthCall == \E speed_percent \in {SpeedLo, SpeedHi} : MoveMouth(speed_percent)

\* stop_mouth(): brake_motor on the mouth channel
StopMouth ==
    /\ BrakeMotor
    /\ noops' = IF mouth_pwm = 0 THEN noops \cup {"brake"} ELSE noops
    /\ UNCHANGED fvarsButPwm
    /\ UNCHANGED <<hpc, mpc, audio_buffer, saved, hsnap, interrupted>>
    /\ UNCHANGED <<pvars, gvars, svars, evars, xvars>>

NextStops ==
    \/ EnqueueChunk
    \/ StopPlayback
    \/ MoveMouthCall
    \/ StopMouth
    \/ SessionStartConnect
    \/ RequestStop
    \/ StopSessionAgain
    \/ StreamBreak
    \/ WatchdogExit
    \/ PostInactive

(***************************************************************************)
(* One turn of the session together with the playback queue and its worker: *)
(* handle_message step by step where it awaits or loops against the worker, *)
(* mic_callback on the audio thread                                         *)
(***************************************************************************)
\* the songs play_song is asked for here: those without head moves, at the
\* common tempo
TurnSongs ==
    {f \in MetadataFiles : f.head_moves = <<>> /\ f.bpm # SlowBpm /\ ~f.half_tempo}

\* start() with no client held, the connection succeeds; clear_buffers() first
TurnStart ==
    /\ spc = "idle"
    /\ hpc = "idle"
    /\ NeedsConnect
    /\ StartResets
    /\ audio_buffer' = 0
    /\ interrupted' = FALSE
    /\ Connect
    /\ StartPlayback
    /\ SpawnWatchdog
    /\ mic_on' = TRUE
    /\ spc' = "stream"
    /\ emitted' = "none"
    /\ UNCHANGED <<session_initialized, run_mode, personality, persisted>>
    /\ UNCHANGED <<hpc, mpc, saved, hsnap, noops>>
    /\ UNCHANGED <<fvars, gvars, evars, xvars>>

\* a message of type WS_SESSION_UPDATED
TurnSessionUpdated == hpc = "idle" /\ EvSessionUpdated

\* an audio delta: the one-time commit, process_audio_delta (save buffer, enqueue),
\* and with interrupt_event set the flush loop is entered
TurnAudioDelta(interrupt) ==
    /\ InStream
    /\ hpc = "idle"
    /\ fpc = "idle"
    /\ nput < MaxTurnItems
    /\ committed' = (committed \/ session_initialized)
    /\ emitted' = IF ~committed /\ session_initialized THEN "commit" ELSE "none"
    /\ nput' = nput + 1
    /\ QueuePut(nput + 1)
    /\ audio_buffer' = audio_buffer + 1
    /\ Activity
    /\ IF interrupt
         THEN /\ hpc' = "flush"
              /\ fpc' = "check"
              /\ fkind' = "bargein"
              /\ fsnap' = nput + 1
         ELSE UNCHANGED <<hpc, fpc, fkind, fsnap>>
    /\ UNCHANGED <<playback_done_event, wpc, witem, wfailed, written, discarded, lost,
                   nstop, jpc, jsnap>>
    /\ UNCHANGED <<ws_client, ws_closed, session_active, first_text, full_response_text,
                   user_spoke_after_assistant, allow_mic_input, session_initialized,
                   run_mode, personality, persisted, spc, conns, mic_on, wd_tasks>>
    /\ UNCHANGED <<mpc, saved, hsnap, interrupted, noops>>
    /\ UNCHANGED <<fvars, gvars, evars, xvars>>

TurnAudio == \E interrupt \in BOOLEAN : TurnAudioDelta(interrupt)

\* the flush loop of the barge-in branch is left: session_active.clear(),
\* interrupt_event.clear(), return
TurnBargeInDone ==
    /\ hpc = "flush"
    /\ fpc = "idle"
    /\ session_active' = FALSE
    /\ interrupted' = TRUE
    /\ hpc' = "idle"
    /\ emitted' = "none"
    /\ UNCHANGED <<ws_client, ws_closed, committed, first_text, full_response_text,
                   user_spoke_after_assistant, allow_mic_input, session_initialized,
                   run_mode, personality, persisted, spc, conns, mic_on, wd_tasks,
                   idle_expired, wd_stops>>
    /\ UNCHANGED <<mpc, audio_buffer, saved, hsnap, noops>>
    /\ UNCHANGED <<pvars, fvars, gvars, evars, xvars>>

\* a transcript or text delta
TurnTextDelta ==
    /\ hpc = "idle"
    /\ Len(full_response_text) < MaxTurnText
    /\ EvTextDelta("a")

\* response.done: the handler enters playback_queue.join
TurnResponseDone ==
    /\ InStream
    /\ hpc = "idle"
    /\ jpc = "idle"
    /\ hpc' = "join"
    /\ jpc' = "waiting"
    /\ jsnap' = nput
    /\ emitted' = "none"
    /\ UNCHANGED <<playback_queue, unfinished_tasks, playback_done_event, wpc, witem,
                   wfailed, written, discarded, lost, nput, nstop, fpc, fkind, fsnap>>
    /\ UNCHANGED <<ws_client, ws_closed, session_active, committed, first_text,
                   full_response_text, user_spoke_after_assistant, allow_mic_input,
                   session_initialized, run_mode, personality, persisted, spc, conns,
                   mic_on, wd_tasks, idle_expired, wd_stops>>
    /\ UNCHANGED <<mpc, audio_buffer, saved, hsnap, interrupted, noops>>
    /\ UNCHANGED <<fvars, gvars, evars, xvars>>

\* (mutant) the handler goes on to the settle delay without the drain wait
MutTurnSettle ==
    /\ hpc = "join"
    /\ hpc' = "settle"
    /\ jpc' = "idle"
    /\ emitted' = "none"
    /\ UNCHANGED <<playback_queue, unfinished_tasks, playback_done_event, wpc, witem,
                   wfailed, written, discarded, lost, nput, nstop, fpc, fkind, jsnap,
                   fsnap>>
    /\ UNCHANGED <<ws_client, ws_closed, session_active, committed, first_text,
                   full_response_text, user_spoke_after_assistant, allow_mic_input,
                   session_initialized, run_mode, personality, persisted, spc, conns,
                   mic_on, wd_tasks, idle_expired, wd_stops>>
    /\ UNCHANGED <<mpc, audio_buffer, saved, hsnap, interrupted, noops>>
    /\ UNCHANGED <<fvars, gvars, evars, xvars>>

\* the drain wait has returned: await asyncio.sleep(1)
TurnSettle ==
    /\ hpc = "join"
    /\ jpc = "returned"
    /\ hpc' = "settle"
    /\ jpc' = "idle"
    /\ emitted' = "none"
    /\ UNCHANGED <<playback_queue, unfinished_tasks, playback_done_event, wpc, witem,
                   wfailed, written, discarded, lost, nput, nstop, fpc, fkind, jsnap,
                   fsnap>>
    /\ UNCHANGED <<ws_client, ws_closed, session_active, committed, first_text,
                   full_response_text, user_spoke_after_assistant, allow_mic_input,
                   session_initialized, run_mode, personality, persisted, spc, conns,
                   mic_on, wd_tasks, idle_expired, wd_stops>>
    /\ UNCHANGED <<mpc, audio_buffer, saved, hsnap, interrupted, noops>>
    /\ UNCHANGED <<fvars, gvars, evars, xvars>>

\* after the settle delay: the save buffer is persisted when it is not empty,
\* clear_buffers(), playback_done_event.set(), allow_mic_input = True, and in
\* dory mode stop_session()
TurnResponseFinish ==
    /\ hpc = "settle"
    /\ saved' = IF audio_buffer > 0 THEN Append(saved, audio_buffer) ELSE saved
    /\ audio_buffer' = 0
    /\ playback_done_event' = TRUE
    /\ Activity
    /\ allow_mic_input' = TRUE
    /\ IF run_mode = "dory"
         THEN StopSession
         ELSE UNCHANGED <<session_active, mic_on, ws_client, conns>>
    /\ hpc' = "idle"
    /\ emitted' = "none"
    /\ UNCHANGED <<playback_queue, unfinished_tasks, wpc, witem, wfailed, written,
                   discarded, lost, nput, nstop, fpc, fkind, jpc, jsnap, fsnap>>
    /\ UNCHANGED <<ws_closed, committed, first_text, full_response_text,
                   user_spoke_after_assistant, session_initialized, run_mode,
                   personality, persisted, spc, wd_tasks>>
    /\ UNCHANGED <<mpc, hsnap, interrupted, noops>>
    /\ UNCHANGED <<fvarsButPwm, mouth_pwm, gvars, evars, xvars>>

\* (mutant) every error message ends the session
MutTurnErrorOther ==
    /\ InStream
    /\ hpc = "idle"
    /\ StopAllMotors
    /\ emitted' = "error"
    /\ session_active' = FALSE
    /\ UNCHANGED <<ws_client, ws_closed, committed, first_text,
                   full_response_text, user_spoke_after_assistant, allow_mic_input,
                   session_initialized, run_mode, personality, persisted, spc, conns,
                   mic_on, wd_tasks, idle_expired, wd_stops>>
    /\ UNCHANGED <<pvars, fvarsButPwm, gvarsButHead, evars, xvars, tvars>>

\* an error message whose code is not invalid_api_key: stop_all_motors(), a log line
TurnErrorOther ==
    /\ InStream
    /\ hpc = "idle"
    /\ StopAllMotors
    /\ emitted' = "error"
    /\ UNCHANGED <<ws_client, ws_closed, session_active, committed, first_text,
                   full_response_text, user_spoke_after_assistant, allow_mic_input,
                   session_initialized, run_mode, personality, persisted, spc, conns,
                   mic_on, wd_tasks, idle_expired, wd_stops>>
    /\ UNCHANGED <<pvars, fvarsButPwm, gvarsButHead, evars, xvars, tvars>>

\* an error message with code invalid_api_key: stop_all_motors(); with the cue asset
\* present its chunk is enqueued and the handler enters playback_queue.join,
\* without it stop_session() follows at once
TurnErrorCredential(asset) ==
    /\ InStream
    /\ hpc = "idle"
    /\ jpc = "idle"
    /\ StopAllMotors
    /\ emitted' = "none"
    /\ IF asset
         THEN /\ nput < MaxTurnItems
              /\ nput' = nput + 1
              /\ QueuePut(nput + 1)
              /\ hsnap' = nput
              /\ jpc' = "waiting"
              /\ jsnap' = nput + 1
              /\ hpc' = "cue"
              /\ UNCHANGED <<session_active, mic_on, ws_client, conns>>
         ELSE /\ StopSession
              /\ UNCHANGED <<nput, playback_queue, unfinished_tasks, hsnap, jpc, jsnap,
                             hpc>>
    /\ UNCHANGED <<playback_done_event, wpc, witem, wfailed, written, discarded, lost,
                   nstop, fpc, fkind, fsnap>>
    /\ UNCHANGED <<ws_closed, committed, first_text, full_response_text,
                   user_spoke_after_assistant, allow_mic_input, session_initialized,
                   run_mode, personality, persisted, spc, wd_tasks, idle_expired,
                   wd_stops>>
    /\ UNCHANGED <<mpc, audio_buffer, saved, interrupted, noops>>
    /\ UNCHANGED <<fvarsButPwm, gvarsButHead, evars, xvars>>

TurnErrorKey == \E asset \in BOOLEAN : TurnErrorCredential(asset)

\* the drain wait on the cue has returned: stop_session(), return
TurnCueDone ==
    /\ hpc = "cue"
    /\ jpc = "returned"
    /\ StopSession
    /\ jpc' = "idle"
    /\ hpc' = "idle"
    /\ emitted' = "none"
    /\ UNCHANGED <<playback_queue, unfinished_tasks, playback_done_event, wpc, witem,
                   wfailed, written, discarded, lost, nput, nstop, fpc, fkind, jsnap,
                   fsnap>>
    /\ UNCHANGED <<ws_closed, committed, first_text, full_response_text,
                   user_spoke_after_assistant, allow_mic_input, session_initialized,
                   run_mode, personality, persisted, spc, wd_tasks, idle_expired,
                   wd_stops>>
    /\ UNCHANGED <<mpc, audio_buffer, saved, hsnap, interrupted, noops>>
    /\ UNCHANGED <<fvars, gvars, evars, xvars>>

\* function call play_song with a song name: stop_session(), then asyncio.sleep(1.0)
TurnPlaySong ==
    /\ InStream
    /\ hpc = "idle"
    /\ StopSession
    /\ hpc' = "song_wait"
    /\ emitted' = "none"
    /\ UNCHANGED <<ws_closed, committed, first_text, full_response_text,
                   user_spoke_after_assistant, allow_mic_input, session_initialized,
                   run_mode, personality, persisted, spc, wd_tasks, idle_expired,
                   wd_stops>>
    /\ UNCHANGED <<mpc, audio_buffer, saved, hsnap, interrupted, noops>>
    /\ UNCHANGED <<pvars, fvars, gvars, evars, xvars>>

\* play_song(song_name): reset_for_new_song() empties the queue's deque (the
\* unfinished-task count stays) and clears the event; the metadata is loaded.
\* Without a bpm the TypeError leaves handle_message and run_stream's except and
\* finally run; otherwise the worker is ensured, the song's chunk is enqueued and
\* playback_queue.join() is called on the loop's thread
TurnSongPlays(f) ==
    LET raised == LoadMetadata(f).bpm = NoBpm
    IN  /\ hpc = "song_wait"
        /\ jpc = "idle"
        /\ PlaySongLoads(f)
        /\ playback_done_event' = FALSE
        /\ emitted' = "none"
        /\ IF raised
             THEN /\ playback_queue' = <<>>
                  /\ session_active' = FALSE
                  /\ mic_on' = FALSE
                  /\ spc' = "post"
                  /\ hpc' = "idle"
                  /\ UNCHANGED <<unfinished_tasks, nput, wpc, wfailed, hsnap, jpc, jsnap>>
             ELSE /\ nput < MaxTurnItems
                  /\ nput' = nput + 1
                  /\ playback_queue' = <<nput + 1>>
                  /\ unfinished_tasks' = unfinished_tasks + 1
                  /\ wpc' = IF wpc = "dead" THEN "open" ELSE wpc
                  /\ wfailed' = IF wpc = "dead" THEN FALSE ELSE wfailed
                  /\ hsnap' = nput
                  /\ jpc' = "waiting"
                  /\ jsnap' = nput + 1
                  /\ hpc' = "song"
                  /\ UNCHANGED <<session_active, mic_on, spc>>
        /\ UNCHANGED <<witem, written, discarded, lost, nstop, fpc, fkind, fsnap>>
        /\ UNCHANGED <<ws_client, ws_closed, committed, first_text, full_response_text,
                       user_spoke_after_assistant, allow_mic_input, session_initialized,
                       run_mode, personality, persisted, conns, wd_tasks, idle_expired,
                       wd_stops>>
        /\ UNCHANGED <<mpc, audio_buffer, saved, interrupted, noops>>
        /\ UNCHANGED <<mv_head_out, fvars, evars, xvars>>

TurnSong == \E f \in TurnSongs : TurnSongPlays(f)

\* play_song: join() has returned; the finally block stops the motors and
\* handle_message returns
TurnSongDone ==
    /\ hpc = "song"
    /\ jpc = "returned"
    /\ StopAllMotors
    /\ jpc' = "idle"
    /\ hpc' = "idle"
    /\ emitted' = "none"
    /\ UNCHANGED <<playback_queue, unfinished_tasks, playback_done_event, wpc, witem,
                   wfailed, written, discarded, lost, nput, nstop, fpc, fkind, jsnap,
                   fsnap>>
    /\ UNCHANGED <<ws_client, ws_closed, session_active, committed, first_text,
                   full_response_text, user_spoke_after_assistant, allow_mic_input,
                   session_initialized, run_mode, personality, persisted, spc, conns,
                   mic_on, wd_tasks, idle_expired, wd_stops>>
    /\ UNCHANGED <<mpc, audio_buffer, saved, hsnap, interrupted, noops>>
    /\ UNCHANGED <<fvarsButPwm, gvarsButHead, evars, xvars>>

\* the next message finds the session inactive, or the socket was disconnected
TurnStreamBreak == hpc = "idle" /\ StreamBreak

\* post_response_handling with the session inactive
TurnPostInactive == hpc = "idle" /\ PostInactive

\* mic_callback: the test of allow_mic_input and session_active passes
TurnMicCheck ==
    /\ mpc = "idle"
    /\ mic_on
    /\ allow_mic_input
    /\ session_active
    /\ mpc' = "checked"
    /\ UNCHANGED <<hpc, audio_buffer, saved, hsnap, interrupted, noops>>
    /\ UNCHANGED <<pvars, fvars, gvars, svars, evars, xvars>>

\* mic_callback past its test: a loud frame records activity, and the frame is
\* sent when a client is held (the send fails on a closed socket)
TurnMicAct(loud) ==
    /\ mpc = "checked"
    /\ mpc' = "idle"
    /\ user_spoke_after_assistant' = (loud \/ user_spoke_after_assistant)
    /\ IF loud THEN Activity ELSE UNCHANGED <<idle_expired, wd_stops>>
    /\ emitted' = IF SocketOpen THEN "frame" ELSE "none"
    /\ UNCHANGED <<ws_client, ws_closed, session_active, committed, first_text,
                   full_response_text, allow_mic_input, session_initialized, run_mode,
                   personality, persisted, spc, conns, mic_on, wd_tasks>>
    /\ UNCHANGED <<hpc, audio_buffer, saved, hsnap, interrupted, noops>>
    /\ UNCHANGED <<pvars, fvars, gvars, evars, xvars>>

TurnMic == \E loud \in BOOLEAN : TurnMicAct(loud)

NextTurn ==
    \/ TurnStart
    \/ TurnSessionUpdated
    \/ TurnAudio
    \/ FlushCheckMore
    \/ FlushCheckEmpty
    \/ FlushPop
    \/ FlushPopEmpty
    \/ TurnBargeInDone
    \/ TurnTextDelta
    \/ TurnResponseDone
    \/ JoinReturn
    \/ TurnSettle
    \/ TurnResponseFinish
    \/ TurnErrorOther
    \/ TurnErrorKey
    \/ TurnCueDone
    \/ TurnPlaySong
    \/ TurnSong
    \/ TurnSongDone
    \/ TurnStreamBreak
    \/ TurnPostInactive
    \/ WorkerOpenOk
    \/ WorkerOpenFail
    \/ WorkerGet
    \/ WorkerProcess
    \/ WorkerWriteFail
    \/ ExtHeadOn

\* the ways run_stream's loop ends and what post_response_handling then does,
\* with the head and mouth motors driven meanwhile
NextPost ==
    \/ SessionStartConnect
    \/ EvText
    \/ EvAudio
    \/ EvResponseDone
    \/ MicSpeech
    \/ IdleExpires
    \/ WatchdogExit
    \/ MicTimeout
    \/ RequestStop
    \/ StreamBreak
    \/ StreamEnd
    \/ StreamCrash
    \/ PostInactive
    \/ PostRestart
    \/ PostEnd
    \/ ExtHeadOn
    \/ MoveMouthCall

\* a delta "?" that follows the turn's text "a"
TurnQuestion ==
    /\ hpc = "idle"
    /\ full_response_text = <<"a">>
    /\ EvTextDelta("?")

\* the remote end closes the socket between two messages
TurnStreamEnd == hpc = "idle" /\ StreamEnd

\* post_response_handling with the session active
TurnPostRestart == hpc = "idle" /\ PostRestart

TurnPostEnd == hpc = "idle" /\ PostEnd

\* the microphone callback against the handlers of a turn that carries no audio
NextMic ==
    \/ TurnStart
    \/ TurnSessionUpdated
    \/ TurnTextDelta
    \/ TurnQuestion
    \/ TurnStreamEnd
    \/ TurnPostRestart
    \/ TurnPostEnd
    \/ TurnResponseDone
    \/ JoinReturn
    \/ TurnSettle
    \/ TurnResponseFinish
    \/ TurnMicCheck
    \/ TurnMic
    \/ RequestStop
    \/ TurnStreamBreak
    \/ TurnPostInactive
    \/ WatchdogExit

InitTurn ==
    /\ hpc = "idle"
    /\ mpc = "idle"
    /\ audio_buffer = 0
    /\ saved = <<>>
    /\ hsnap = 0
    /\ interrupted = FALSE
    /\ noops = {}

(***************************************************************************)
(* The idle watchdog against the clock (core/session.py)                   *)
(***************************************************************************)
\* mic_timeout_checker tasks created, and the half seconds they are watched for
MaxCheckers == 2
IdleHorizon == 16

\* the clock when the process starts (time.time() is far from zero)
IdleEpoch == 3

\* MIC_TIMEOUT_SECONDS, timeout_offset, the 0.5 s before the bar is shown, the
\* 1.0 s between two tail flaps and the sleep of the loop, in half seconds
MicTimeoutTicks == 10
TimeoutOffset == 4
ShownAfter == 1
TailGap == 2
SleepTicks == 1

InitIdle ==
    /\ inow = IdleEpoch
    /\ last_activity = IdleEpoch
    /\ mgr_last_played = IdleEpoch
    /\ audio_last_played = IdleEpoch
    /\ checkers = <<>>
    /\ idle_out = [task |-> 0, flap |-> FALSE, stop |-> FALSE, at |-> -1, flap_at |-> -1]
    /\ prev_flap = -1

\* idle_seconds = now - max(self.last_activity[0], audio.last_played_time)
IdleSeconds == inow - Max(last_activity, audio_last_played)

\* the clock advances by half a second once every task that is due has run (it
\* is watched while a task lives)
IdleTick ==
    /\ inow < IdleEpoch + IdleHorizon
    /\ \E t \in 1..Len(checkers) : checkers[t].alive
    /\ \A t \in 1..Len(checkers) : checkers[t].alive => checkers[t].wake > inow
    /\ inow' = inow + 1
    /\ UNCHANGED <<last_activity, mgr_last_played, audio_last_played, checkers, idle_out,
                   prev_flap>>
    /\ UNCHANGED <<pvars, fvars, gvars, svars, evars, tvars>>
    /\ UNCHANGED ovars

\* start()'s resets and worker start, then run_stream up to mic.start()
IdleRunStream ==
    /\ Len(checkers) < MaxCheckers
    /\ StartResets
    /\ last_activity' = inow
    /\ StartPlayback
    /\ SpawnWatchdog
    /\ checkers' = Append(checkers, [ltm |-> 0, wake |-> inow, alive |-> TRUE])
    /\ mic_on' = TRUE
    /\ spc' = "stream"
    /\ emitted' = "none"
    /\ UNCHANGED <<session_initialized, run_mode, personality, persisted>>
    /\ UNCHANGED <<inow, mgr_last_played, audio_last_played, idle_out, prev_flap>>
    /\ UNCHANGED <<fvars, gvars, evars, tvars>>
    /\ UNCHANGED ovars

\* start() from outside with no connection held
IdleStart ==
    /\ spc = "idle"
    /\ NeedsConnect
    /\ Connect
    /\ IdleRunStream

\* post_response_handling, follow-up: start() again on the client held
IdleRestart ==
    /\ spc = "post"
    /\ session_active
    /\ FollowUp
    /\ IF NeedsConnect THEN Connect ELSE UNCHANGED <<ws_client, ws_closed, conns>>
    /\ IdleRunStream

\* mic_callback with a frame louder than SILENCE_THRESHOLD
IdleMicSpeech ==
    /\ mic_on
    /\ allow_mic_input
    /\ session_active
    /\ user_spoke_after_assistant' = TRUE
    /\ Activity
    /\ last_activity' = inow
    /\ emitted' = IF SocketOpen THEN "frame" ELSE "none"
    /\ UNCHANGED <<ws_client, ws_closed, session_active, committed, first_text,
                   full_response_text, allow_mic_input, session_initialized, run_mode,
                   personality, persisted, spc, conns, mic_on, wd_tasks>>
    /\ UNCHANGED <<inow, mgr_last_played, audio_last_played, checkers, idle_out, prev_flap>>
    /\ UNCHANGED <<pvars, fvars, gvars, evars, tvars>>
    /\ UNCHANGED ovars

\* response.done, once the drain wait has returned
IdleResponseDone ==
    /\ InStream
    /\ playback_done_event' = TRUE
    /\ allow_mic_input' = TRUE
    /\ Activity
    /\ last_activity' = inow
    /\ IF run_mode = "dory"
         THEN StopSession
         ELSE UNCHANGED <<session_active, ws_client, conns, mic_on>>
    /\ emitted' = "none"
    /\ UNCHANGED <<ws_closed, committed, first_text, full_response_text,
                   user_spoke_after_assistant, session_initialized, run_mode,
                   personality, persisted, spc, wd_tasks>>
    /\ UNCHANGED <<playback_queue, unfinished_tasks, wpc, witem, wfailed, written,
                   discarded, lost, nput, nstop, fpc, fkind, jpc, jsnap, fsnap>>
    /\ UNCHANGED <<inow, mgr_last_played, audio_last_played, checkers, idle_out, prev_flap>>
    /\ UNCHANGED <<fvars, gvars, evars, tvars>>
    /\ UNCHANGED ovars

\* one pass of mic_timeout_checker's loop by task t, up to its sleep: the loop
\* test, the idle time, the tail flap, the stop
IdleCheck(t) ==
    /\ checkers[t].alive
    /\ checkers[t].wake <= inow
    /\ LET shown == session_active /\ IdleSeconds - TimeoutOffset > ShownAfter
           flap == shown /\ inow - checkers[t].ltm > TailGap
           stop == shown /\ IdleSeconds - TimeoutOffset > MicTimeoutTicks
       IN  /\ checkers' = [checkers EXCEPT ![t] =
                              [ltm |-> IF flap THEN inow ELSE @.ltm,
                               wake |-> inow + SleepTicks,
                               alive |-> session_active /\ ~stop]]
           /\ idle_out' = [task |-> t, flap |-> flap, stop |-> stop, at |-> inow,
                           flap_at |-> IF flap THEN inow ELSE idle_out.flap_at]
           /\ prev_flap' = IF flap THEN idle_out.flap_at ELSE prev_flap
           /\ wd_tasks' = IF session_active /\ ~stop THEN wd_tasks ELSE wd_tasks - 1
           /\ IF stop
                THEN StopSession
                ELSE UNCHANGED <<session_active, mic_on, ws_client, conns>>
    /\ emitted' = "none"
    /\ UNCHANGED <<ws_closed, committed, first_text, full_response_text,
                   user_spoke_after_assistant, allow_mic_input, session_initialized,
                   run_mode, personality, persisted, spc, idle_expired, wd_stops>>
    /\ UNCHANGED <<inow, last_activity, mgr_last_played, audio_last_played>>
    /\ UNCHANGED <<pvars, fvars, gvars, evars, tvars>>
    /\ UNCHANGED ovars

IdleCheckStep == \E t \in 1..Len(checkers) : IdleCheck(t)

NextIdle ==
    \/ IdleStart
    \/ IdleMicSpeech
    \/ EnqueueChunk
    \/ WorkerOpenOk
    \/ WorkerGet
    \/ WorkerProcess
    \/ IdleTick
    \/ IdleCheckStep

NextIdleRestart ==
    \/ IdleStart
    \/ EvText
    \/ IdleResponseDone
    \/ IdleMicSpeech
    \/ StreamEnd
    \/ IdleRestart
    \/ IdleTick
    \/ IdleCheckStep

(***************************************************************************)
(* metadata.txt as play_song reads it (core/audio.py)                      *)
(***************************************************************************)
MetaKeys == {"bpm", "gain", "tail_threshold", "compensate_tail", "half_tempo_tail_flap",
             "head_moves"}

\* a key's line: not in the file, well formed, or with a value that does not parse
MetaLines == {"missing", "valid", "invalid"}

\* the dictionary load_metadata starts from
MetaInitial ==
    [bpm |-> NoBpm, gain |-> 1, tail_threshold |-> 1500, compensate_tail |-> 0,
     half_tempo_tail_flap |-> FALSE, head_moves |-> <<>>]

\* what the well-formed line of each key parses to
MetaParsed ==
    [bpm |-> SlowBpm, gain |-> 2, tail_threshold |-> 1000, compensate_tail |-> 1,
     half_tempo_tail_flap |-> TRUE, head_moves |-> <<[t |-> 0, d |-> 1]>>]

\* float(value.strip()) and float(v.split(':')[1]) raise on a value that is no
\* number; value.strip().lower() == "true" raises on nothing
MetaRaises(m) == \E k \in MetaKeys \ {"half_tempo_tail_flap"} : m[k] = "invalid"

\* load_metadata(path) where no line raises: a line that cannot raise and is
\* not "true" sets False
MetaLoaded(m) ==
    [k \in MetaKeys |->
        IF m[k] = "valid" THEN MetaParsed[k]
        ELSE IF m[k] = "invalid" THEN FALSE
        ELSE MetaInitial[k]]

NoMeta == [valid |-> FALSE, raised |-> FALSE, enqueued |-> FALSE,
           file |-> [k \in MetaKeys |-> "missing"], metadata |-> MetaInitial]

InitMeta ==
    /\ meta_file = [k \in MetaKeys |-> "missing"]
    /\ meta_out = NoMeta

\* the song's metadata.txt is written (the history starts afresh)
MetaWrite ==
    /\ \E m \in [MetaKeys -> MetaLines] : meta_file' = m
    /\ meta_out' = NoMeta
    /\ UNCHANGED notMeta

\* play_song up to its try block: load_metadata, the reads of the dictionary,
\* audio.beat_length = 60.0 / BPM; the song is enqueued when nothing has raised
MetaPlaySong ==
    /\ LET parse_raised == MetaRaises(meta_file)
           metadata == IF parse_raised THEN MetaInitial ELSE MetaLoaded(meta_file)
           raised == parse_raised \/ metadata["bpm"] = NoBpm
       IN  meta_out' = [valid |-> TRUE, raised |-> raised, enqueued |-> ~raised,
                        file |-> meta_file, metadata |-> metadata]
    /\ UNCHANGED meta_file
    /\ UNCHANGED notMeta

NextMeta ==
    \/ MetaWrite
    \/ MetaPlaySong

(***************************************************************************)
(* The motor watchdog thread (core/movements.py)                           *)
(***************************************************************************)
\* DEFAULT_MOTOR_IDLE_TIMEOUT, in intervals of DEFAULT_MOTOR_WATCHDOG_INTERVAL (1 s)
MotorIdleTimeout == 60
\* the durations are counted up to one interval past the timeout
MotorCap == MotorIdleTimeout + 1

InitMotor ==
    /\ head_pwm = 0
    /\ k_on_for = 0
    /\ k_since = 0
    /\ k_idle = TRUE
    /\ k_due = TRUE
    /\ k_stops = FALSE

\* is_motor_active(): a motor pin reads 1 (the head pin, held at 100 %)
IsMotorActive == head_pwm > 0 \/ mouth_pwm = SpeedHi

\* move_head("on") and its thread: the flag, then the pin stays at 100 %
MotorHeadOn ==
    /\ ~mv_head_out
    /\ mv_head_out' = TRUE
    /\ head_pwm' = SpeedHi
    /\ k_on_for' = 0
    /\ UNCHANGED <<mouth_pwm, k_since, k_idle, k_due, k_stops>>
    /\ UNCHANGED notMotor

\* move_head("off"): brake_motor on the head channel
MotorHeadOff ==
    /\ mv_head_out
    /\ mv_head_out' = FALSE
    /\ head_pwm' = 0
    /\ k_on_for' = 0
    /\ UNCHANGED <<mouth_pwm, k_since, k_idle, k_due, k_stops>>
    /\ UNCHANGED notMotor

\* one pass of motor_watchdog's loop, up to its sleep
MotorWatchdogPass ==
    /\ k_due
    /\ k_due' = FALSE
    /\ IF IsMotorActive
       THEN /\ k_since' = 0
            /\ k_idle' = FALSE
            /\ k_stops' = FALSE
            /\ UNCHANGED <<mv_head_out, mouth_pwm, head_pwm, k_on_for>>
       ELSE IF ~k_idle /\ k_since > MotorIdleTimeout
       THEN /\ StopAllMotors
            /\ head_pwm' = 0
            /\ k_on_for' = 0
            /\ k_idle' = TRUE
            /\ k_stops' = TRUE
            /\ UNCHANGED k_since
       ELSE /\ k_stops' = FALSE
            /\ UNCHANGED <<mv_head_out, mouth_pwm, head_pwm, k_on_for, k_since, k_idle>>
    /\ UNCHANGED notMotor

\* time.sleep(DEFAULT_MOTOR_WATCHDOG_INTERVAL): one interval passes
MotorTick ==
    /\ ~k_due
    /\ k_due' = TRUE
    /\ k_since' = Min(k_since + 1, MotorCap)
    /\ k_on_for' = IF head_pwm > 0 THEN Min(k_on_for + 1, MotorCap) ELSE 0
    /\ UNCHANGED <<mv_head_out, mouth_pwm, head_pwm, k_idle, k_stops>>
    /\ UNCHANGED notMotor

NextMotor ==
    \/ MotorHeadOn
    \/ MotorHeadOff
    \/ MotorWatchdogPass
    \/ MotorTick

(***************************************************************************)
(* The interlude (core/movements.py, core/audio_playback.py)               *)
(***************************************************************************)
\* _interlude_routine threads created while the worker is watched
MaxInterludes == 3

\* interlude_counter counts in units of 40000 samples (1.67 s of audio written;
\* a routine lasts up to 2 + 3 * (0.2 + 0.9) = 5.3 s).  The first target, drawn
\* by random.randint(150000, 300000), and those drawn by random.randint(80000, 160000)
FirstTarget == 4
LaterTargets == {2, 4}

InitInterlude ==
    /\ head_tail_locked = FALSE
    /\ ithreads = <<>>
    /\ interlude_counter = 0
    /\ interlude_target = FirstTarget

\* the _interlude_routine threads that have not returned
RunningInterludes == {t \in 1..Len(ithreads) : ithreads[t].pc # "done"}

\* interlude(): return when the lock is held, else start a thread
Interlude ==
    IF head_tail_locked
    THEN UNCHANGED ithreads
    ELSE ithreads' = Append(ithreads, [pc |-> "start", flaps |-> 0])

\* the worker writes one unit of samples of raw or tts chunks: the counter,
\* and interlude() at the target
InterludeWrite ==
    /\ Len(ithreads) < MaxInterludes
    /\ IF interlude_counter + 1 >= interlude_target
       THEN /\ Interlude
            /\ interlude_counter' = 0
            /\ interlude_target' \in LaterTargets
       ELSE /\ interlude_counter' = interlude_counter + 1
            /\ UNCHANGED <<ithreads, interlude_target>>
    /\ UNCHANGED <<head_tail_locked, mv_head_out>>
    /\ UNCHANGED notInterlude

\* a step of _interlude_routine in thread t: move_head("off") and the delay; the
\* draw of flap_count; a move_tail() and its sleep; move_head("on") or not
InterludeStep(t) ==
    /\ ithreads[t].pc # "done"
    /\ \/ /\ ithreads[t].pc = "start"
          /\ mv_head_out' = FALSE
          /\ ithreads' = [ithreads EXCEPT ![t].pc = "count"]
       \/ /\ ithreads[t].pc = "count"
          /\ \E n \in 1..3 : ithreads' = [ithreads EXCEPT ![t] = [pc |-> "flap", flaps |-> n]]
          /\ UNCHANGED mv_head_out
       \/ /\ ithreads[t].pc = "flap"
          /\ ithreads' = [ithreads EXCEPT ![t] =
                             [pc |-> IF @.flaps = 1 THEN "head" ELSE "flap",
                              flaps |-> @.flaps - 1]]
          /\ UNCHANGED mv_head_out
       \/ /\ ithreads[t].pc = "head"
          /\ \E on \in BOOLEAN : mv_head_out' = (on \/ mv_head_out)
          /\ ithreads' = [ithreads EXCEPT ![t].pc = "done"]
    /\ UNCHANGED <<head_tail_locked, interlude_counter, interlude_target>>
    /\ UNCHANGED notInterlude

InterludeRuns == \E t \in 1..Len(ithreads) : InterludeStep(t)

NextInterlude ==
    \/ InterludeWrite
    \/ InterludeRuns

(***************************************************************************)
(* play_random_wake_up_clip (core/audio_playback.py)                       *)
(***************************************************************************)
\* chunks a wake-up clip is read in
MaxClip == 2

InitClip ==
    /\ cpc = "idle"
    /\ already_pending = 0
    /\ clip_left = 0
    /\ clip_ids = {}

\* play_random_wake_up_clip with a clip of n chunks: already_pending is read,
\* enqueue_wav_to_playback opens the file
ClipBegin(n) ==
    /\ cpc = "idle"
    /\ already_pending' = unfinished_tasks
    /\ clip_left' = n
    /\ clip_ids' = {}
    /\ cpc' = "enqueue"
    /\ UNCHANGED pvars
    /\ UNCHANGED notClip

ClipCall == \E n \in 1..MaxClip : ClipBegin(n)

\* enqueue_wav_to_playback: frames = wf.readframes(chunk_size); put(frames)
ClipPut ==
    /\ cpc = "enqueue"
    /\ clip_left > 0
    /\ nput' = nput + 1
    /\ QueuePut(nput + 1)
    /\ clip_ids' = clip_ids \cup {nput + 1}
    /\ clip_left' = clip_left - 1
    /\ UNCHANGED <<cpc, already_pending>>
    /\ UNCHANGED <<playback_done_event, wpc, witem, wfailed, written, discarded, nstop,
                   fpc, fkind, jpc, jsnap, fsnap, lost>>
    /\ UNCHANGED notClip

\* enqueue_wav_to_playback: if not frames: break
ClipEnqueued ==
    /\ cpc = "enqueue"
    /\ clip_left = 0
    /\ cpc' = "wait"
    /\ UNCHANGED <<already_pending, clip_left, clip_ids>>
    /\ UNCHANGED pvars
    /\ UNCHANGED notClip

\* while unfinished_tasks > already_pending is left: the event is set, the
\* function returns
ClipReturn ==
    /\ cpc = "wait"
    /\ ~(unfinished_tasks > already_pending)
    /\ playback_done_event' = TRUE
    /\ cpc' = "returned"
    /\ UNCHANGED <<already_pending, clip_left, clip_ids>>
    /\ UNCHANGED <<playback_queue, unfinished_tasks, wpc, witem, wfailed, written,
                   discarded, lost, nput, nstop, fpc, fkind, jpc, jsnap, fsnap>>
    /\ UNCHANGED notClip

NextClip ==
    \/ EnqueueChunk
    \/ ClipCall
    \/ ClipPut
    \/ ClipEnqueued
    \/ ClipReturn
    \/ EnsureWorkerStarted
    \/ WorkerOpenOk
    \/ WorkerGet
    \/ WorkerProcess

(***************************************************************************)
(* An inbound audio delta on its way to the sink (core/audio_utils.py,     *)
(* core/audio_playback.py)                                                 *)
(***************************************************************************)
\* int16 samples a decoded delta may hold
MaxDeltaSamples == 60

\* a run of int16 samples: how many, the frame rate (kHz) and channel count a sink
\* must run at to play them at their pitch, how often the volume was applied
NoAudio == [samples |-> 0, rate |-> 0, channels |-> 0, gains |-> 0]

\* base64.b64decode(audio_b64): the server's PCM, 24 kHz mono
DecodedPcm(n) == [samples |-> n, rate |-> 24, channels |-> 1, gains |-> 0]

\* np.frombuffer(.., int16) taken as 24 kHz mono, resample to twice the length,
\* np.repeat into two channels, PLAYBACK_VOLUME: process_audio_chunk, and the
\* same lines in the worker's raw-chunk branch
ConvertForSink(a) ==
    [samples |-> a.samples * 4, rate |-> a.rate * 2, channels |-> a.channels * 2,
     gains |-> a.gains + 1]

InitDelta ==
    /\ delta_saved = NoAudio
    /\ delta_item = NoAudio
    /\ delta_written = NoAudio

\* process_audio_delta: decode, audio_buffer.extend, enqueue_audio_chunk
ProcessAudioDelta(n) ==
    /\ delta_saved' = DecodedPcm(n)
    /\ delta_item' = ConvertForSink(DecodedPcm(n))
    /\ delta_written' = NoAudio
    /\ UNCHANGED notDelta

DeltaArrives == \E n \in 1..MaxDeltaSamples : ProcessAudioDelta(n)

\* the worker takes the item as a raw chunk and writes it to the 48 kHz stereo stream
DeltaPlayed ==
    /\ delta_item # NoAudio
    /\ delta_written = NoAudio
    /\ delta_written' = ConvertForSink(delta_item)
    /\ UNCHANGED <<delta_saved, delta_item>>
    /\ UNCHANGED notDelta

NextDelta ==
    \/ DeltaArrives
    \/ DeltaPlayed

Init ==
    /\ InitPlayback /\ InitFlap /\ InitSong /\ InitSession /\ InitWorkers /\ InitTurn
    /\ InitIdle
    /\ InitMeta
    /\ InitMotor
    /\ InitInterlude
    /\ InitClip
    /\ InitDelta
    /\ exit_out = [head |-> FALSE, mouth |-> 0]

\* a specification pins the configuration of the subsystems it leaves alone
InitDefault == Init /\ run_mode = "normal" /\ chunk_ms = ChunkMs

InitFlapSync == Init /\ run_mode = "normal"

InitSessionRun == Init /\ chunk_ms = ChunkMs

SpecPlayback == InitDefault /\ [][NextPlayback]_vars

SpecFlap == InitFlapSync /\ [][NextFlap]_vars

SpecSong == InitDefault /\ [][NextSong]_vars

SpecSession == InitSessionRun /\ [][NextSession]_vars

SpecWorkers == InitDefault /\ [][NextWorkers]_vars

SpecStops == InitDefault /\ [][NextStops]_vars

SpecTurn == InitDefault /\ [][NextTurn]_vars

SpecMic == InitSessionRun /\ [][NextMic]_vars

SpecPost == InitSessionRun /\ [][NextPost]_vars

SpecIdle == InitDefault /\ [][NextIdle]_vars

SpecMeta == InitDefault /\ [][NextMeta]_vars

SpecMotor == InitDefault /\ [][NextMotor]_vars

SpecDelta == InitDefault /\ [][NextDelta]_vars

SpecClip == InitDefault /\ [][NextClip]_vars

SpecInterlude == InitDefault /\ [][NextInterlude]_vars

\* the watchdog is a thread that keeps running, and time passes
FairMotor ==
    /\ SpecMotor
    /\ WF_vars(MotorWatchdogPass)
    /\ WF_vars(MotorTick)

SpecIdleRestart == InitSessionRun /\ [][NextIdleRestart]_vars

\* The worker and the flush loop are threads that keep running; a caller blocked in
\* join() returns as soon as it can.  The fairness on EnsureWorkerStarted and
\* FlushBegin grants the drain wait every help the program could give it.
FairPlayback ==
    /\ SpecPlayback
    /\ WF_vars(EnsureWorkerStarted)
    /\ WF_vars(WorkerOpenOk)
    /\ WF_vars(WorkerGet)
    /\ WF_vars(WorkerStopSignal)
    /\ WF_vars(WorkerProcess)
    /\ WF_vars(FlushBegin)
    /\ WF_vars(FlushCheckMore)
    /\ WF_vars(FlushCheckEmpty)
    /\ WF_vars(FlushPop)
    /\ WF_vars(FlushPopEmpty)
    /\ WF_vars(JoinReturn)
    /\ WF_vars(JoinDone)

(***************************************************************************)
(* Claims about the playback queue                                         *)
(***************************************************************************)
JoinReturns == jpc = "waiting" /\ jpc' = "returned"

StopPlaybackReturns == fkind = "stop" /\ fpc # "idle" /\ fpc' = "idle"

\* each chunk at most once and in enqueue order: the ids written strictly increase
WrittenInOrder == \A i, j \in 1..Len(written) : i < j => written[i] < written[j]

\* C1 as stated: when a drain wait returns, the worker has processed every chunk
\* that was enqueued before the wait began, exactly once and in enqueue order,
\* whatever stop_playback and the barge-in flush did meanwhile.
C1_AllProcessedAtReturn ==
    /\ []WrittenInOrder
    /\ [][JoinReturns => \A i \in 1..jsnap : i \in Range(written)]_vars

\* C1 amended: when a drain wait returns, every chunk that was enqueued before the
\* wait began has either been processed by the worker or been removed by
\* stop_playback or the barge-in flush; the processed chunks were each processed
\* exactly once and in enqueue order.
C1_ProcessedOrFlushedAtReturn ==
    /\ []WrittenInOrder
    /\ [][JoinReturns => \A i \in 1..jsnap : i \in Range(written) \/ i \in discarded]_vars

\* a drain wait over three chunks has returned, one of them flushed, the others played
C1_Witness ==
    /\ jpc = "returned"
    /\ jsnap >= 3
    /\ Len(written) >= 2
    /\ discarded # {}

\* C2: when stop_playback leaves its loop the queue is empty and playback_done_event
\* is set on its return; no chunk it removed is ever held, mouth-synced or written
\* by the worker; of the chunks enqueued before it was called, the only one that
\* can still complete is the one the worker holds.
C2_StopPlaybackDiscards ==
    /\ [](discarded \cap (Range(written) \cup lost \cup {witem}) = {})
    /\ [][StopPlaybackReturns =>
            /\ playback_queue' = <<>>
            /\ playback_done_event'
            /\ \A i \in 1..fsnap :
                  i \in Range(written') \/ i \in discarded' \/ i \in lost' \/ i = witem']_vars

\* stop_playback has returned after removing two chunks while the worker holds one
C2_Witness ==
    /\ fkind = "stop"
    /\ fpc = "idle"
    /\ playback_done_event
    /\ Cardinality(discarded) >= 2
    /\ wpc = "item"
    /\ witem \in 1..fsnap

\* C3: after the output stream failed to open or a write failed, a caller blocked
\* in the drain wait eventually returns.
C3_WaitersReturnAfterFailure == (wfailed /\ jpc = "waiting") ~> (jpc # "waiting")

(***************************************************************************)
(* Claims about the head scheduler and the beat sync                       *)
(***************************************************************************)
FiredOnce == \A i, j \in 1..Len(fired) : i < j => fired[i] # fired[j]

\* C6: the worker pops and fires every head-move event at most once, only when the
\* time elapsed since song_start_time has reached the event's trigger offset, and
\* never while the window of the event it fired before is still running
\* (head_move_active set and its end time not reached).
C6_HeadEventsFireOnceWhenDue ==
    /\ []FiredOnce
    /\ [][Len(fired') > Len(fired) =>
            /\ fired' = Append(fired, Head(head_move_queue))
            /\ head_move_queue' = Tail(head_move_queue)
            /\ snow - song_start_time >= Head(head_move_queue).t
            /\ head_move_active => snow >= head_move_end_time]_vars

\* both events of a schedule have fired, the second one late because its trigger
\* fell into the window of the first
C6_Witness ==
    /\ Len(fired) >= 2
    /\ head_move_active
    /\ fired[Len(fired)].idx = 2
    /\ snow - song_start_time > fired[Len(fired)].t

\* C7: for a song item with which the adjusted elapsed time crosses the next beat
\* boundary, the worker issues exactly one tail flap if the running peak exceeds
\* the threshold and the head is not extended, and none otherwise; it resets the
\* peak and moves the boundary on by one beat length; an item that does not cross
\* the boundary brings no tail flap.
C7_OneFlapPerBeatCrossing ==
    beat.valid =>
        IF beat.crossed
        THEN /\ beat.flaps = IF beat.peak > DrumsThreshold /\ ~beat.headExt THEN 1 ELSE 0
             /\ beat.peakAfter = 0
             /\ beat.advance = BeatLength
        ELSE beat.flaps = 0

\* C8: the beat sync issues no tail flap for a song item while the head channel is
\* extended (movements.head_out), whoever extended it.
C8_NoFlapWhileHeadExtended == (beat.valid /\ beat.headExt) => beat.flaps = 0

(***************************************************************************)
(* Claims about the envelope mouth sync                                    *)
(***************************************************************************)
\* C9: two consecutive mouth drives are issued at least min_flap_gap apart, and
\* the later one is issued only after the earlier one's duration has run out.
C9_FlapGapAndSingleFlight ==
    prevDrive # NoDrive =>
        /\ lastDrive.at - prevDrive.at >= MinFlapGapMs * 1000
        /\ lastDrive.at >= prevDrive.at + prevDrive.dur

\* two drives have been issued and a further loud chunk has been debounced
C9_Witness ==
    /\ prevDrive # NoDrive
    /\ ~call.empty
    /\ call.rms > Threshold * 100
    /\ call.cmds = <<>>

NoDriveIn(cmds) == \A i \in 1..Len(cmds) : cmds[i].op # "drive"

\* C10: a chunk whose RMS is below half the threshold, arriving while no open-mouth
\* window is active, makes flap_from_pcm_chunk issue exactly one brake and no
\* drive and leaves _last_flap and _mouth_open_until as they were; a chunk whose
\* RMS is not above the threshold, or that arrives before the minimum gap has
\* elapsed, gets no drive.
C10_QuietBrakesAndDebounce ==
    [][(call' # call /\ ~call'.empty) =>
        /\ (2 * call'.rms < Threshold * 100 /\ fnow >= mouth_open_until) =>
               /\ call'.cmds = <<Brake>>
               /\ last_flap' = last_flap
               /\ mouth_open_until' = mouth_open_until
        /\ (call'.rms <= Threshold * 100 \/ fnow - last_flap < MinFlapGapMs * 1000) =>
               NoDriveIn(call'.cmds)]_vars

\* a quiet chunk right at the end of a drive has braked the mouth
C10_Witness ==
    /\ lastDrive # NoDrive
    /\ call.cmds = <<Brake>>
    /\ call.at = mouth_open_until
    /\ last_flap = lastDrive.at

(***************************************************************************)
(* Claims about the session                                                *)
(***************************************************************************)
\* the transcript, whitespace aside, ends in a question mark
EndsInQuestion(s) == Strip(s) # <<>> /\ Strip(s)[Len(Strip(s))] = "?"

\* C4: when post_response_handling runs with the session still active, it calls start()
\* (once) exactly when the transcript ends in "?" and the user spoke after the
\* assistant; otherwise start() is not called and the connection is closed.
C4_FollowUpIffQuestionAndSpoke ==
    [][(spc = "post" /\ session_active) =>
         IF EndsInQuestion(full_response_text) /\ user_spoke_after_assistant
           THEN spc' = "stream"
           ELSE spc' # "stream" /\ ws_client' = "none"]_vars

\* a trait value the interface allows: an integer in [0, 100]
InRange(v) == v.ty = "int" /\ v.n >= 0 /\ v.n <= 100

\* C5: whatever update_personality events arrive, every trait, in memory and as
\* persisted, is an integer in [0, 100].
C5_TraitsStayInRange ==
    \A t \in Traits : InRange(personality[t]) /\ InRange(persisted[t])

(***************************************************************************)
(* Claims about the drive the mouth sync computes                          *)
(***************************************************************************)
\* C11: with threshold 1500 and the minimum gap elapsed, a chunk whose RMS normalized
\* by 32768 is 0.005 gets exactly one mouth drive, at 25% power for 15 ms.
C11_LowestLevelDrives ==
    [][(call' # call /\ ~call'.empty /\ call'.rms = NormLo
          /\ fnow - last_flap >= MinFlapGapMs * 1000) =>
        call'.cmds = <<Drive(SpeedLo, DurLoMs * 1000)>>]_vars

\* the drive the last call issued, if it issued one
Drove == ~call.empty /\ call.cmds # <<>> /\ call.cmds[1].op = "drive"

C13_AbsentMetadataPlaysWithDefaults ==
    (song.valid /\ ~song.exists) =>
        /\ song.bpm = SongBpm
        /\ ~song.raised
        /\ song.started

(***************************************************************************)
(* Claims about the session's connection                                   *)
(***************************************************************************)
\* a step in which start() runs: run_stream is entered, or connect() fails
StartRuns ==
    \/ spc # "stream" /\ spc' = "stream"
    \/ spc = "idle" /\ ws_client = "none" /\ ws_client' = "unconnected"

\* C14: start() called while the session holds a client opens no further connection,
\* and whatever sequence of start, stop_session, request_stop and
\* post_response_handling runs, the session has at most one connection open.
C14_AtMostOneConnection ==
    /\ [](conns <= 1)
    /\ [][(StartRuns /\ ws_client # "none") =>
            (conns' = conns /\ ws_client' = ws_client)]_vars

\* a follow-up restart has run start() on the client the session held
C14_Witness ==
    /\ spc = "stream"
    /\ session_active
    /\ ws_client = "open"
    /\ ws_closed
    /\ conns <= 1

\* C15: when stop_session() or request_stop() returns, the active flag is clear, the
\* microphone is stopped and the connection, if one was open, is closed; called again
\* in that state, either changes none of the three.
C15_StopLeavesSessionStopped ==
    [][(StopSessionCall \/ MicTimeout \/ RequestStop) => Stopped']_vars

C19_OfflineStartLeavesIdle ==
    /\ [][SessionStartNoNetwork =>
            (~session_active' /\ ws_client' = "none" /\ spc' = "idle")]_vars
    /\ [][(spc = "idle" /\ spc' = "stream") => conns' = conns + 1]_vars

\* a step of mic_callback that sends its frame on the socket
MicForwards == (MicSpeech \/ MicSilence) /\ emitted' = "frame"

\* C20: mic_callback forwards a frame only after the session-ready event has been
\* received: every step that sends a frame is taken with session_initialized set.
C20_FramesOnlyWhenReady ==
    [][MicForwards => session_initialized]_vars

\* C18: while the playback worker is alive no other component drives an actuator:
\* a step in which say(), play_audio_with_head_movement or the interlude thread
\* calls move_head happens only when no worker is alive.
C18_OnlyWorkerDrivesHead ==
    [][(ExtHeadOn \/ ExtHeadOff) => ~swalive]_vars

(***************************************************************************)
(* Claims about the worker threads                                         *)
(***************************************************************************)
AliveThreads == {t \in 1..Len(threads) : Alive(t)}
OpenStreams == {t \in 1..Len(threads) : threads[t] = "streaming"}

\* C17: at any time at most one playback worker thread is alive and at most one
\* output stream is open, however the calls of ensure_playback_worker_started from
\* the different threads interleave.
C17_OneWorkerOneStream ==
    /\ Cardinality(AliveThreads) <= 1
    /\ Cardinality(OpenStreams) <= 1

Speaking == ~first_text /\ ~allow_mic_input

\* C22: from the first text or transcript delta of a turn until its turn-complete
\* event has been handled, no microphone frame is forwarded and no mic activity is
\* recorded, however the mic callback thread interleaves with the event handler.
C22_MicSilentWhileSpeaking ==
    [][Speaking => ~(TurnMicAct(TRUE) \/ (TurnMic /\ emitted' = "frame"))]_vars

\* C23: when the interrupt flag is observed while an audio delta is handled, the
\* playback queue is flushed, playback is signalled stopped and the session leaves
\* the active state; afterwards no inbound event of that turn is handled, so no
\* delta is enqueued for playback or appended to the transcript.
C23_BargeInStopsTurn ==
    /\ [][TurnBargeInDone =>
            (playback_queue' = <<>> /\ playback_done_event' /\ ~session_active')]_vars
    /\ [][(interrupted /\ ~TurnStart) =>
            (nput' = nput /\ full_response_text' = full_response_text)]_vars

Draining == hpc \in {"join", "settle"}

\* C25: on a turn-complete event the handler sets playback_done_event and re-enables
\* mic forwarding only after its drain wait on the playback queue has returned and
\* the settle delay has passed; it persists the save buffer exactly when the buffer
\* is not empty, and the buffer is empty once the event has been handled.
C25_IdleOnlyAfterDrain ==
    /\ [][TurnResponseFinish => (unfinished_tasks = 0 /\ playback_queue = <<>>)]_vars
    /\ [][(Draining /\ ~TurnResponseFinish) =>
            /\ UNCHANGED allow_mic_input
            /\ (playback_done_event' # playback_done_event => wpc' = "dead")]_vars
    /\ [][TurnResponseFinish =>
            /\ playback_done_event' /\ allow_mic_input' /\ audio_buffer' = 0
            /\ (audio_buffer > 0 => saved' = Append(saved, audio_buffer))
            /\ (audio_buffer = 0 => saved' = saved)]_vars
    /\ [][saved' # saved => TurnResponseFinish]_vars

\* a turn with a transcript and audio has been completed: its chunk was played and
\* its save buffer persisted
C25_Witness ==
    /\ hpc = "idle"
    /\ ~first_text
    /\ saved = <<1>>
    /\ audio_buffer = 0
    /\ written = <<1>>
    /\ playback_done_event
    /\ allow_mic_input
    /\ session_active

(***************************************************************************)
(* Claims about the end of run_stream                                       *)
(***************************************************************************)
\* C26: with the active flag clear when the loop has ended, post_response_handling
\* never calls start(), whatever the transcript and the user-spoke flag are: it
\* closes and clears the connection and stops all motors.
C26_InactiveNeverRestarts ==
    [][(spc = "post" /\ ~session_active /\ spc' # "post") =>
         /\ spc' = "idle"
         /\ ~session_active'
         /\ ws_client' = "none"
         /\ conns' <= conns
         /\ UNCHANGED <<committed, first_text, full_response_text,
                        user_spoke_after_assistant, wd_tasks>>
         /\ ~mv_head_out'
         /\ mouth_pwm' = 0]_vars

\* post_response_handling has ended an inactive session whose transcript ends in a
\* question mark after the user spoke
C26_Witness ==
    /\ spc = "idle"
    /\ ~session_active
    /\ FollowUp
    /\ ws_client = "none"
    /\ ~mv_head_out
    /\ mouth_pwm = 0

(***************************************************************************)
(* Claims about error messages and function calls within a turn             *)
(***************************************************************************)
\* C27: an error message whose code is not invalid_api_key force-stops all
\* actuators and leaves the active flag, the connection and the per-turn buffers
\* as they were, so that the later messages of the turn are still handled.
C27_OtherErrorsContinue ==
    [][TurnErrorOther =>
         /\ ~mv_head_out'
         /\ mouth_pwm' = 0
         /\ UNCHANGED <<session_active, ws_client, ws_closed, conns, mic_on, spc>>
         /\ UNCHANGED <<audio_buffer, full_response_text, committed, first_text,
                        playback_queue, unfinished_tasks, playback_done_event>>
         /\ InStream'
         /\ hpc' = "idle"]_vars

\* an error that is not about the credential has just been handled in the middle of
\* a turn that has audio queued and a transcript begun
C27_Witness ==
    /\ emitted = "error"
    /\ InStream
    /\ hpc = "idle"
    /\ ~first_text
    /\ audio_buffer = 1
    /\ playback_queue # <<>>
    /\ ~mv_head_out
    /\ mouth_pwm = 0

C29_SongAfterStop ==
    /\ [][TurnSong => Stopped]_vars
    /\ [][TurnSong => (nput' = nput + 1 /\ playback_queue' = <<nput + 1>>)]_vars
    /\ [][TurnSongDone => (hsnap + 1) \in Range(written)]_vars
    /\ [][(TurnSong \/ TurnSongDone) => ~InStream']_vars
    /\ [][(~InStream /\ InStream') => TurnStart]_vars

\* C30: in dory mode, once response.done has been handled the session is ended:
\* the active flag is clear and the connection closed, and post_response_handling
\* does not restart, even with a transcript that ends in a question mark and the
\* user-spoke flag set.
C30_DoryEndsSession ==
    /\ [][(TurnResponseFinish /\ run_mode = "dory") =>
            (~session_active' /\ ws_client' = "none" /\ ~mic_on')]_vars
    /\ [][run_mode = "dory" => ~TurnPostRestart]_vars
    /\ [][(run_mode = "dory" /\ ~session_active /\ session_active') => TurnStart]_vars

\* a dory session has ended after its response.done, with a transcript that ends in
\* a question mark and the user-spoke flag set
C30_Witness ==
    /\ run_mode = "dory"
    /\ spc = "idle"
    /\ ~session_active
    /\ ws_client = "none"
    /\ ~first_text
    /\ allow_mic_input
    /\ playback_done_event
    /\ RegexFollowUp(Strip(full_response_text))
    /\ user_spoke_after_assistant

(***************************************************************************)
(* Claims about the idle watchdog, the motors and the clips                *)
(***************************************************************************)
\* a pass of a mic_timeout_checker task that requests the session stop
IdleStopStep == idle_out' # idle_out /\ idle_out'.stop

\* a pass of a mic_timeout_checker task that flaps the tail
IdleFlapStep == idle_out' # idle_out /\ idle_out'.flap

\* C31 as stated: the idle watchdog measures the idle time from the later of the
\* last microphone activity and the playback engine's last-activity timestamp as
\* the worker updates it after each item, so it never requests a session stop
\* while the worker has finished an item within the last timeout period.
C31_NoStopWhilePlaying ==
    [][IdleStopStep => (written = <<>> \/ inow - mgr_last_played > MicTimeoutTicks)]_vars

\* C32 as stated: two impatience tail flaps of the idle watchdog are never less
\* than one second apart, over the whole life of the session, a follow-up restart
\* that re-enters run_stream included.
C32_FlapsOneSecondApart ==
    [][IdleFlapStep => (idle_out.flap_at < 0 \/ inow - idle_out.flap_at >= TailGap)]_vars

\* the worker moves the beat boundary while the song last asked for plays
BeatAdvances == next_beat_time' > next_beat_time /\ song' = song /\ song.started

\* C33 as stated: while a song plays, the beat boundary advances by the beat
\* length taken from that song's metadata: 60/bpm seconds, doubled when the
\* half-tempo flag is set.
C33_BeatFromMetadata ==
    [][BeatAdvances => next_beat_time' - next_beat_time = song.audio_beat_length]_vars

\* the defaults the keys of metadata.txt are documented to take
MetaDocumented ==
    [bpm |-> SongBpm, gain |-> 1, tail_threshold |-> 1500, compensate_tail |-> 0,
     half_tempo_tail_flap |-> FALSE, head_moves |-> <<>>]

\* C34 as stated: malformed metadata never aborts playback: for every combination
\* of missing, valid and invalid bpm, gain, tail_threshold, compensate_tail,
\* half_tempo_tail_flap and head_moves, each key that is not valid takes its
\* documented default independently of the others, and play_song enqueues the song.
C34_MalformedNeverAborts ==
    meta_out.valid =>
        /\ ~meta_out.raised
        /\ meta_out.enqueued
        /\ \A k \in MetaKeys :
              meta_out.file[k] # "valid" => meta_out.metadata[k] = MetaDocumented[k]

\* the output stream fails: it does not open, or a write raises
StreamFails == (wpc = "open" /\ wpc' # "open" /\ wpc' # "get") \/ lost' # lost

\* C35: when the output stream fails to open or a write to it fails, the worker's
\* loop ends, every motor is stopped and playback_done_event is set; that worker
\* processes no further queue item.
C35_FailureEndsWorker ==
    /\ [][StreamFails => /\ wpc' = "dead"
                         /\ playback_done_event'
                         /\ ~mv_head_out'
                         /\ mouth_pwm' = 0]_vars
    /\ [][wpc = "dead" => written' = written /\ witem' = witem]_vars

\* a write failed while the head was extended and items were still queued
C35_Witness ==
    /\ wpc = "dead"
    /\ wfailed
    /\ lost # {}
    /\ exit_out.head
    /\ ~mv_head_out
    /\ playback_done_event
    /\ playback_queue # <<>>

\* the head channel has been active for longer than the motor idle timeout
ActiveTooLong == head_pwm > 0 /\ k_on_for > MotorIdleTimeout

\* C36 as stated: a motor channel that stays active for longer than the motor
\* idle timeout is eventually force-stopped by the motor watchdog thread.
C36_StuckMotorStopped == ActiveTooLong ~> (k_stops /\ head_pwm = 0)

\* C37 as stated: interlude() starts a new routine only if none is running: at
\* most one _interlude_routine thread exists at any time.
C37_OneInterludeRoutine == Cardinality(RunningInterludes) <= 1

\* play_random_wake_up_clip leaves its polling loop
ClipReturns == cpc = "wait" /\ cpc' = "returned"

\* C38 as stated: play_random_wake_up_clip returns, and sets playback_done_event,
\* only after every chunk of the clip it enqueued has been processed by the
\* worker, for any number of items already pending when it was called.
C38_ClipPlayedAtReturn ==
    [][ClipReturns => playback_done_event' /\ clip_ids \subseteq Range(written)]_vars

\* C39 as stated: for each inbound audio delta the item enqueued is the decoded
\* PCM as a raw chunk in the source format (24 kHz mono), the same bytes as are
\* appended to the save buffer, so that the conversion of rate and channels
\* happens exactly once, in the worker.
C39_RawChunkEnqueued ==
    /\ delta_item = delta_saved
    /\ delta_item # NoAudio => delta_item.rate = 24 /\ delta_item.channels = 1
    /\ delta_written # NoAudio =>
          /\ delta_written.rate = 48
          /\ delta_written.channels = 2
          /\ delta_written.gains = 1

\* the items the worker has dequeued and not marked done: the one it holds, and
\* those it held when a write raised
DequeuedNotDone == (IF witem # NoItem THEN 1 ELSE 0) + Cardinality(lost)

\* C40 as stated: after any sequence of enqueue, worker processing, stop_playback,
\* barge-in flush and reset_for_new_song, the unfinished-task count equals the
\* items queued plus the items the worker has dequeued and not yet marked done
\* (hence a drain wait started when the producers have stopped always returns).
C40_UnfinishedCountMatches ==
    unfinished_tasks = Len(playback_queue) + DequeuedNotDone

====
